---- MODULE Spec2Model ----
(***************************************************************************)
(* Oroboreo - the Golden Loop (oreo-run.js) with the parts of              *)
(* oreo-config.js and oreo-archive.js it calls.                            *)
(*                                                                         *)
(* The loop process is single threaded: the code between two awaits runs   *)
(* to completion, so each action below is one such synchronous section     *)
(* (a timer callback, a signal handler, a child event handler followed by  *)
(* the continuation of main it wakes).  The agent is an external process:  *)
(* it edits the task store and exits whenever it likes.                    *)
(*                                                                         *)
(* Time is counted in ticks of 1000 ms.  An armed timer holds the ticks    *)
(* left, NoTimer means not armed.  Until a signal arrives the only timers  *)
(* are the cooldown and the SIGKILL timer armed just before it with the    *)
(* same delay, so only their order matters and no tick is counted; the     *)
(* signal arrives some r ticks before they are due, and from then on the   *)
(* ticks are counted against the timers of gracefulShutdown.  The hard     *)
(* task timeout is configurable (OREO_TASK_TIMEOUT_MS), so its timer may   *)
(* fire at any moment of the await.                                        *)
(***************************************************************************)
EXTENDS Integers, Sequences, FiniteSets, TLC

\* ------------------------------------------------------------------ bounds
\* Longest task store (number of task lines) that is enumerated.
MaxTasks == 2
\* CONFIG.maxGlobalLoops is 100 in the source; the model runs the same loop
\* with a smaller cap so that the cap is reached within the search.
maxGlobalLoops == 6
\* Most archive directories that are made in the runs of the archive.
MaxArchives == 3
\* Most iterations of the loop in a log that is analysed.
MaxLogIterations == 2

\* --------------------------------------------------------- program constants
maxRetriesPerTask == 5
\* CONFIG.cooldownMs, in ticks
cooldownTicks == 5
\* grace period before SIGKILL, in ticks (both kill paths use 5000 ms)
killGraceTicks == 5
\* delay of process.exit(1) in gracefulShutdown, in ticks
shutdownExitTicks == 6

NoTimer == 0 - 1
Undef == "undefined"

\* ------------------------------------------------------------- task store
\* A task line of cookie-crumbs.md: "- [m] **Task id: title** [TAG]".
\* Lines that do not match the task pattern are not represented: parseTasks
\* skips them.  The pattern is case-insensitive; the mark "x" stands for
\* both x and X, which checkmark.toLowerCase() makes the same.
\* Text is a sequence of characters.  The title (with the tag, which
\* parseTasks appends to it) tells the lines a user or an agent wrote
\* ("real") from the example line of the reset template ("Title"); details
\* are the lines under the task line.  No pattern reads them; selectModel
\* does.
TaskIds == {1, 2}
Marks == {" ", "x"}
Titles == {<<"r", "e", "a", "l">>}
TaskLine == [mark : Marks, id : TaskIds, title : Titles, details : {<<>>}]
TaskStores == UNION {[1..n -> TaskLine] : n \in 0..MaxTasks}

\* A scan of the lines that starts one line late.
parseTasksFromSecondLine(content) ==
  [i \in 1..(Len(content) - 1) |->
     [id |-> content[i + 1].id, line |-> i + 1,
      title |-> content[i + 1].title, details |-> content[i + 1].details,
      completed |-> content[i + 1].mark = "x"]]

\* parseTasks: one record per task line, in document order.  `line` stands
\* for the title and details of the record (what tells two records apart).
parseTasks(content) ==
  [i \in 1..Len(content) |->
     [id |-> content[i].id, line |-> i, title |-> content[i].title,
      details |-> content[i].details, completed |-> content[i].mark = "x"]]

\* The open task with the smallest id instead of the first one.
FirstIncompleteById(tasks) ==
  LET open == {i \in 1..Len(tasks) : ~tasks[i].completed}
  IN  IF open = {} THEN 0
      ELSE CHOOSE i \in open : \A j \in open : tasks[i].id <= tasks[j].id

\* A test of the first record alone instead of a search.
FirstIncompleteHead(tasks) ==
  IF Len(tasks) > 0 /\ ~tasks[1].completed THEN 1 ELSE 0

\* tasks.find(t => !t.completed): index of the first match, 0 for undefined.
FirstIncomplete(tasks) ==
  LET open == {i \in 1..Len(tasks) : ~tasks[i].completed}
  IN  IF open = {} THEN 0 ELSE CHOOSE i \in open : \A j \in open : i <= j

\* updatedTasks.find(t => t.id === task.id)?.completed
isCompleteById(tasks, id) ==
  LET same == {i \in 1..Len(tasks) : tasks[i].id = id}
  IN  IF same = {} THEN FALSE
      ELSE tasks[CHOOSE i \in same : \A j \in same : i <= j].completed

\* cookieCrumbsTemplate of resetSessionFiles: its example line
\* "- [ ] **Task 1: Title** [SIMPLE|COMPLEX|CRITICAL]" matches the task
\* pattern.
cookieCrumbsTemplate ==
  << [mark |-> " ", id |-> 1, title |-> <<"T", "i", "t", "l", "e">>,
      details |-> <<>>] >>

\* checkSessionIncomplete of oreo-run.js on a store that can be read: some
\* "**Task <digits>:" (Check 1) and some "- [ ] **Task <digits>:" (Check 2);
\* with real tasks all checked both branches of Check 3 return false.
checkSessionIncomplete(exists, content) ==
  IF ~exists THEN FALSE
  ELSE LET realTasks == {i \in 1..Len(content) : content[i].id \in TaskIds}
           incompleteTasks == {i \in 1..Len(content) : content[i].mark = " "}
       IN  IF realTasks = {} THEN FALSE
           ELSE IF incompleteTasks # {} THEN TRUE
           ELSE FALSE

\* -------------------------------------------------------- model selection
\* String.prototype.toLowerCase on the letters of the alphabet.
upperCase ==
  <<"A", "B", "C", "D", "E", "F", "G", "H", "I", "J", "K", "L", "M", "N", "O",
    "P", "Q", "R", "S", "T", "U", "V", "W", "X", "Y", "Z">>
lowerCase ==
  <<"a", "b", "c", "d", "e", "f", "g", "h", "i", "j", "k", "l", "m", "n", "o",
    "p", "q", "r", "s", "t", "u", "v", "w", "x", "y", "z">>
toLowerCase(text) ==
  [i \in 1..Len(text) |->
     IF \E k \in DOMAIN upperCase : upperCase[k] = text[i]
       THEN lowerCase[CHOOSE k \in DOMAIN upperCase : upperCase[k] = text[i]]
       ELSE text[i]]

\* String.prototype.includes
includes(text, pat) ==
  \E i \in 1..(Len(text) - Len(pat) + 1) : SubSeq(text, i, i + Len(pat) - 1) = pat

\* The tiers of CONFIG.models: cheap, standard, premium.
MODELS == {"HAIKU", "SONNET", "OPUS"}

simpleTag == <<"[", "s", "i", "m", "p", "l", "e", "]">>
complexTag == <<"[", "c", "o", "m", "p", "l", "e", "x", "]">>
criticalTag == <<"[", "c", "r", "i", "t", "i", "c", "a", "l", "]">>
complexKeywords ==
  {<<"a", "r", "c", "h", "i", "t", "e", "c", "t", "u", "r", "e">>,
   <<"r", "e", "f", "a", "c", "t", "o", "r">>,
   <<"d", "a", "t", "a", "b", "a", "s", "e">>,
   <<"m", "i", "g", "r", "a", "t", "i", "o", "n">>,
   <<"s", "c", "h", "e", "m", "a">>,
   <<"d", "e", "s", "i", "g", "n">>,
   <<"p", "l", "a", "n">>,
   <<"i", "m", "p", "l", "e", "m", "e", "n", "t">>,
   <<"b", "u", "i", "l", "d">>,
   <<"a", "p", "i">>,
   <<"s", "e", "c", "u", "r", "i", "t", "y">>,
   <<"c", "r", "i", "t", "i", "c", "a", "l">>}

\* The text selectModel reads.
modelText(t) == toLowerCase(t.title \o <<" ">> \o t.details)

\* The keyword analysis placed before the explicit tags.
selectModelKeywordsFirst(t) ==
  LET text == modelText(t)
  IN  IF \E kw \in complexKeywords : includes(text, kw) THEN "SONNET"
      ELSE IF includes(text, simpleTag) THEN "HAIKU"
      ELSE IF includes(text, complexTag) \/ includes(text, criticalTag) THEN "SONNET"
      ELSE "HAIKU"

\* selectModel(task)
selectModel(t) ==
  LET text == modelText(t)
  IN  IF includes(text, simpleTag) THEN "HAIKU"
      ELSE IF includes(text, complexTag) \/ includes(text, criticalTag) THEN "SONNET"
      ELSE IF \E kw \in complexKeywords : includes(text, kw) THEN "SONNET"
      ELSE "HAIKU"

\* ------------------------------------------------------------ environment
\* The provider variables of process.env that clearProviderEnv deletes (one
\* Foundry variable stands for the Foundry group) and AI_PROVIDER.
EnvVar(p, akid, secret, region, key, foundry, bedrock) ==
  [AI_PROVIDER |-> p, AWS_ACCESS_KEY_ID |-> akid, AWS_SECRET_ACCESS_KEY |-> secret,
   AWS_REGION |-> region, ANTHROPIC_API_KEY |-> key,
   ANTHROPIC_FOUNDRY_API_KEY |-> foundry, CLAUDE_CODE_USE_BEDROCK |-> bedrock]

\* Contents of oroboreo/.env that the runs start from: every variable set
\* (with AI_PROVIDER a provider, unset, or not a provider), or only
\* AI_PROVIDER set.
EnvFiles ==
  {EnvVar(p, "AKIA", "secret", "eu-west-1", "sk-ant", "fk", Undef) :
      p \in {"bedrock", "anthropic", Undef, "openai"}}
  \cup {EnvVar(p, Undef, Undef, Undef, Undef, Undef, Undef) :
      p \in {"bedrock", "anthropic"}}

\* (process.env.AI_PROVIDER || 'subscription')
providerOf(e) == IF e.AI_PROVIDER = Undef THEN "subscription" ELSE e.AI_PROVIDER

\* x || d
orElse(x, d) == IF x = Undef THEN d ELSE x

clearProviderEnv(e) ==
  EnvVar(e.AI_PROVIDER, Undef, Undef, Undef, Undef, Undef, Undef)

\* The env object of one iteration (main, "Save credentials" to "Provider-
\* specific configuration"): savedCredentials is read from process.env, then
\* process.env is cleared and spread into env, then the active provider's
\* variables are set from savedCredentials.
childEnv(e) ==
  LET saved == e
      base  == clearProviderEnv(e)
      p     == providerOf(base)
  IN  IF p = "bedrock"
        THEN [base EXCEPT !.CLAUDE_CODE_USE_BEDROCK = "1",
                          !.AWS_REGION = orElse(saved.AWS_REGION, "us-east-1"),
                          !.AWS_ACCESS_KEY_ID = saved.AWS_ACCESS_KEY_ID,
                          !.AWS_SECRET_ACCESS_KEY = saved.AWS_SECRET_ACCESS_KEY]
      ELSE IF p = "anthropic"
        THEN [base EXCEPT !.ANTHROPIC_API_KEY = saved.ANTHROPIC_API_KEY]
      ELSE base

\* -------------------------------------------------------------------- git
\* The repository as setupGitBranch finds it: the branch that is checked
\* out ("session" is a branch named oreo-...), and the git command that
\* fails or times out, if one does: the first one (git rev-parse) or one of
\* those that switch to main and create the session branch.
Branches == {"main", "session", "other"}
GitFailures == {"none", "rev-parse", "checkout"}

\* The commands of setupGitBranch that change the repository, in the order
\* they run when none fails: off main, the backup commit of a dirty tree
\* and git checkout main; then git pull (its failure is ignored), the
\* backup commit of a tree that is dirty on main, and git checkout -b.
gitCommands(branch, dirty) ==
  (IF branch # "main"
     THEN (IF dirty THEN <<"commit">> ELSE <<>>) \o <<"checkout main">>
     ELSE <<>>)
  \o <<"pull">>
  \o (IF branch = "main" /\ dirty THEN <<"commit">> ELSE <<>>)
  \o <<"checkout -b">>

\* The branch setup without the switch to main: the session branch is made
\* from whatever branch is checked out.
setupGitBranchFromCurrent(g, exists, content) ==
  LET r == [g EXCEPT !.ran = TRUE]
  IN  IF g.failure = "rev-parse" THEN [r EXCEPT !.setup = "failed"]
      ELSE IF g.branch = "session" /\ checkSessionIncomplete(exists, content)
        THEN [r EXCEPT !.setup = "resumed"]
      ELSE IF g.failure = "checkout" THEN [r EXCEPT !.setup = "failed"]
      ELSE [r EXCEPT !.branch = "session", !.setup = "created", !.dirty = FALSE,
                     !.base = g.branch,
                     !.commands = (IF g.dirty THEN <<"commit">> ELSE <<>>)
                                    \o <<"checkout -b">>]

\* setupGitBranch: every failure is caught and null is returned ("failed").
\* A session branch with an incomplete session is resumed before any other
\* command runs; otherwise HEAD is moved to main, verified to be main, and
\* the new session branch is created there.  The failing command of
\* "checkout" is git checkout main off main and git checkout -b on main.
setupGitBranch(g, exists, content) ==
  LET r == [g EXCEPT !.ran = TRUE]
      all == gitCommands(g.branch, g.dirty)
      failing == IF g.branch # "main" THEN "checkout main" ELSE "checkout -b"
      done == CHOOSE k \in 0..Len(all) :
                k < Len(all) /\ all[k + 1] = failing
  IN  IF g.failure = "rev-parse" THEN [r EXCEPT !.setup = "failed"]
      ELSE IF g.branch = "session" /\ checkSessionIncomplete(exists, content)
        THEN [r EXCEPT !.setup = "resumed"]
      ELSE IF g.failure = "checkout"
        THEN [r EXCEPT !.setup = "failed", !.commands = SubSeq(all, 1, done),
                       !.dirty = g.dirty /\ done = 0]
      ELSE [r EXCEPT !.branch = "session", !.setup = "created", !.dirty = FALSE,
                     !.base = "main", !.commands = all]

\* What the push and pull-request steps after a reset depend on: the
\* OREO_AUTO_PR switch, the state of the gh CLI and the outcome of git push.
PrEnvs == [autoCreatePR : BOOLEAN,
           gh : {"absent", "unauthenticated", "refuses", "ok"},
           push : {"ok", "fails"}]

\* module.exports of oreo-config.js
oreoConfigExports ==
  {"MODELS", "ANTHROPIC_MODELS", "FOUNDRY_MODELS", "getModelConfig",
   "clearProviderEnv", "getFoundryResource", "hasFoundryConfig", "getPaths",
   "syncReusableUtils", "COLORS", "COST_FACTORS", "getGitConfig"}

\* require('./oreo-config').GIT_CONFIG
GIT_CONFIG(p) == IF "GIT_CONFIG" \in oreoConfigExports THEN p ELSE Undef

\* gitCommitArchive: the whole body is inside a try, a failed push included.
gitCommitArchive(p) == "returned"

\* createPullRequest: GIT_CONFIG.autoCreatePR is read before the try; inside
\* it a missing gh, a gh that is not logged in and a refused pr create are
\* caught.
createPullRequest(p) ==
  IF GIT_CONFIG(p) = Undef THEN "threw" ELSE "returned"

\* ---------------------------------------------------------- working files
\* FILES_TO_ARCHIVE without human-feedback.md.
FilesWithoutFeedback ==
  <<"cookie-crumbs.md", "progress.txt", "costs.json", "oreo-execution.log">>

FILES_TO_ARCHIVE ==
  <<"cookie-crumbs.md", "progress.txt", "costs.json", "oreo-execution.log",
    "human-feedback.md">>
\* Those of them that are not cookie-crumbs.md.
WorkFiles == {"progress.txt", "costs.json", "oreo-execution.log", "human-feedback.md"}

\* The **Session** and **Created** lines of cookie-crumbs.md.  A name is a
\* sequence of pieces ("alpha_1" is <<"alpha", "_1">>) and a path of an
\* archive directory is the Created stamp followed by the pieces of its
\* folder name, so that the folder of session alpha_1 and the first
\* suffixed folder of session alpha are the same path.
templateMeta == [name |-> <<"session-name-here">>, created |-> "today"]

\* `${archivePath}_${counter}`
suffixes == <<"_1", "_2", "_3", "_4", "_5", "_6", "_7", "_8">>

\* getSessionCreatedDate and getSessionName: the folder of the session, or
\* of 'session' at the current minute when there is no cookie-crumbs.md.
\* The clock of the model stands still, the worst case for equal paths.
archiveFolder(exists, meta) ==
  IF exists THEN <<meta.created>> \o meta.name ELSE <<"now", "session">>

\* The derived path whether or not it exists.
getArchivePathNoSuffix(dirs, folder) == folder

RECURSIVE nextFreePath(_, _, _)
nextFreePath(dirs, folder, counter) ==
  LET finalPath == folder \o <<suffixes[counter]>>
  IN  IF finalPath \in dirs THEN nextFreePath(dirs, folder, counter + 1)
      ELSE finalPath

\* getArchivePath: while (fs.existsSync(finalPath)) try the next suffix.
getArchivePath(dirs, folder) ==
  IF folder \in dirs THEN nextFreePath(dirs, folder, 1) ELSE folder

\* ------------------------------------------------------- test classification
\* Character classes of the regular expressions: \d, [a-z] under the i
\* flag, \w and \s.
isDigit(c) == c \in {"0", "1", "2", "3", "4", "5", "6", "7", "8", "9"}
isLetter(c) ==
  \E k \in DOMAIN lowerCase : c = lowerCase[k] \/ c = upperCase[k]
isWordChar(c) == isLetter(c) \/ isDigit(c) \/ c = "_"
isSpace(c) == c \in {" ", "\t", "\n"}

\* \s* from position i: the position of the first character after the run
\* of white space (Len + 1 at the end of the text).
skipSpaces(text, i) ==
  CHOOSE j \in i..(Len(text) + 1) :
    /\ \A k \in i..(j - 1) : isSpace(text[k])
    /\ j = Len(text) + 1 \/ ~isSpace(text[j])

\* \s*=\s*\d+ matches at position i
assignsNumberAt(text, i) ==
  LET e == skipSpaces(text, i)
  IN  /\ e <= Len(text)
      /\ text[e] = "="
      /\ LET d == skipSpaces(text, e + 1)
         IN  d <= Len(text) /\ isDigit(text[d])

\* pat occurs in text at position i
occursAt(text, pat, i) ==
  i + Len(pat) - 1 <= Len(text) /\ SubSeq(text, i, i + Len(pat) - 1) = pat

\* /task-?\d+/i
taskNumberInName(filename) ==
  LET t == toLowerCase(filename)
  IN  \E i \in 1..Len(t) :
        /\ occursAt(t, <<"t", "a", "s", "k">>, i)
        /\ \/ i + 4 <= Len(t) /\ isDigit(t[i + 4])
           \/ i + 5 <= Len(t) /\ t[i + 4] = "-" /\ isDigit(t[i + 5])

\* /\d{4}-\d{2}-\d{2}/
dateInName(filename) ==
  \E i \in 1..(Len(filename) - 9) :
    /\ \A k \in {0, 1, 2, 3, 5, 6, 8, 9} : isDigit(filename[i + k])
    /\ filename[i + 4] = "-"
    /\ filename[i + 7] = "-"

\* /session|fix-|bug-/i
sessionWordInName(filename) ==
  LET t == toLowerCase(filename)
  IN  \/ includes(t, <<"s", "e", "s", "s", "i", "o", "n">>)
      \/ includes(t, <<"f", "i", "x", "-">>)
      \/ includes(t, <<"b", "u", "g", "-">>)

\* filenamePatterns.sessionSpecific: some pattern matches
sessionSpecific(filename) ==
  taskNumberInName(filename) \/ dateInName(filename) \/ sessionWordInName(filename)

\* /^<prefix>[a-z]+<suffix>$/i
prefixWordSuffix(filename, prefix, suffix) ==
  LET t == toLowerCase(filename)
      n == Len(t)
  IN  /\ n > Len(prefix) + Len(suffix)
      /\ SubSeq(t, 1, Len(prefix)) = prefix
      /\ SubSeq(t, n - Len(suffix) + 1, n) = suffix
      /\ \A k \in (Len(prefix) + 1)..(n - Len(suffix)) : isLetter(t[k])

dotJs == <<".", "j", "s">>

\* filenamePatterns.genericPatterns: some pattern matches
genericPatterns(filename) ==
  \/ prefixWordSuffix(filename, <<"v", "e", "r", "i", "f", "y", "-">>, dotJs)
  \/ prefixWordSuffix(filename, <<"c", "h", "e", "c", "k", "-">>, dotJs)
  \/ prefixWordSuffix(filename, <<"v", "a", "l", "i", "d", "a", "t", "e", "-">>, dotJs)
  \/ prefixWordSuffix(filename, <<"t", "e", "s", "t", "-">>,
                      <<"-", "f", "l", "o", "w", ".", "j", "s">>)

\* /userId\s*=\s*\d+/
userIdAssigned(content) ==
  \E i \in 1..Len(content) :
    occursAt(content, <<"u", "s", "e", "r", "I", "d">>, i) /\ assignsNumberAt(content, i + 6)

\* /const\s+\w+Id\s*=\s*\d+/
constIdAssigned(content) ==
  \E i \in 1..Len(content) :
    /\ occursAt(content, <<"c", "o", "n", "s", "t">>, i)
    /\ i + 5 <= Len(content)
    /\ isSpace(content[i + 5])
    /\ LET w == skipSpaces(content, i + 5)
       IN  \E k \in (w + 1)..Len(content) :
             /\ \A j \in w..(k - 1) : isWordChar(content[j])
             /\ occursAt(content, <<"I", "d">>, k)
             /\ assignsNumberAt(content, k + 2)

\* /task\s*\d+/i
taskNumberInContent(content) ==
  LET t == toLowerCase(content)
  IN  \E i \in 1..Len(t) :
        /\ occursAt(t, <<"t", "a", "s", "k">>, i)
        /\ LET d == skipSpaces(t, i + 4)
           IN  d <= Len(t) /\ isDigit(t[d])

\* /session|temporary|temp/i
temporaryWordInContent(content) ==
  LET t == toLowerCase(content)
  IN  \/ includes(t, <<"s", "e", "s", "s", "i", "o", "n">>)
      \/ includes(t, <<"t", "e", "m", "p", "o", "r", "a", "r", "y">>)
      \/ includes(t, <<"t", "e", "m", "p">>)

\* sessionSpecificStrings: some pattern matches
sessionSpecificStrings(content) ==
  \/ userIdAssigned(content)
  \/ constIdAssigned(content)
  \/ taskNumberInContent(content)
  \/ temporaryWordInContent(content)

\* The generic patterns tested before the session-specific ones.
isTestReusableGenericFirst(filename, content) ==
  IF genericPatterns(filename)
    THEN content = <<>> \/ ~sessionSpecificStrings(content)
  ELSE FALSE

\* isTestReusable(filename, content); an empty content is falsy and is not
\* searched.
isTestReusable(filename, content) ==
  IF sessionSpecific(filename) THEN FALSE
  ELSE IF genericPatterns(filename)
    THEN content = <<>> \/ ~sessionSpecificStrings(content)
  ELSE FALSE

\* The scripts of the sessions that are archived.
verifyAuthJs == <<"v", "e", "r", "i", "f", "y", "-", "a", "u", "t", "h", ".", "j", "s">>
verifyTask36Js ==
  <<"v", "e", "r", "i", "f", "y", "-", "t", "a", "s", "k", "-", "3", "6",
    ".", "j", "s">>
cleanScript == <<"o", "k", "(", ")">>
cleanScriptV2 == <<"o", "k", "(", ")", " ", "/", "/", " ", "v", "2">>
hardCodedScript == <<"u", "s", "e", "r", "I", "d", " ", "=", " ", "1">>
TestNames == {verifyAuthJs, verifyTask36Js}
TestContents == {cleanScript, hardCodedScript, cleanScriptV2}

\* ------------------------------------------------------------ post-mortem
\* oreo-execution.log, one record per line: the kind of the line, the task
\* id in it and its text after the timestamp.  The lines of one iteration of
\* main, by the way the iteration went on after "[INFO] Task N: title":
\*   "completed"      ... "[SUCCESS] Task N COMPLETED!"
\*   "commit-timeout" the same, and git commit is killed by its timeout
\*   "incomplete"     ... "[WARN] Task N not marked complete, retrying..."
\*   "echo"           the same, and the agent wrote the phrase of gitCommit
\*                    to its output, which is appended to the log as it is
\*   "failed"         ... "[ERROR] Execution failed: Exit code 1"
\*   "timeout"        ... "[ERROR] Agent timeout detected ...", "[ERROR]
\*                    Execution failed: Task execution timeout after 1800s"
\*   "cut"            the log ends while the agent runs
\*   "unspawned"      "[ERROR] Invalid AI_PROVIDER" and process.exit(1)
LogOutcomes ==
  {"completed", "commit-timeout", "incomplete", "echo", "failed", "timeout", "cut",
   "unspawned"}

\* Task titles as the log shows them.
LogTitles ==
  {<<"r", "e", "a", "l">>,
   <<"a", "d", "d", " ", "t", "i", "m", "e", "o", "u", "t">>}

digit(n) == <<"0", "1", "2", "3", "4", "5", "6", "7", "8", "9">>[n + 1]

\* The message of a log call, after "[timestamp] ".
message(k, i, title) ==
  CASE k = "start" ->
      <<"[", "I", "N", "F", "O", "]", " ", "T", "a", "s", "k", " ", digit(i), ":", " ">>
        \o title
    [] k = "model" ->
      <<"[", "I", "N", "F", "O", "]", " ", "M", "o", "d", "e", "l", ":",
        " ", "S", "o", "n", "n", "e", "t">>
    [] k = "attempt" ->
      <<"[", "I", "N", "F", "O", "]", " ", "A", "t", "t", "e", "m", "p",
        "t", ":", " ", "1", "/", "5">>
    [] k = "spawning" ->
      <<"[", "I", "N", "F", "O", "]", " ", "S", "p", "a", "w", "n", "i",
        "n", "g", " ", "C", "l", "a", "u", "d", "e", " ", "C", "o", "d",
        "e", " ", "a", "g", "e", "n", "t", ".", ".", ".">>
    [] k = "spawned" ->
      <<"[", "I", "N", "F", "O", "]", " ", "A", "g", "e", "n", "t", " ",
        "s", "p", "a", "w", "n", "e", "d", " ", "(", "P", "I", "D", ":",
        " ", "7", ")">>
    [] k = "output" ->
      <<"G", "i", "t", " ", "o", "p", "e", "r", "a", "t", "i", "o", "n",
        " ", "t", "i", "m", "e", "o", "u", "t", " ", "a", "f", "t", "e",
        "r", " ", "6", "0", "s">>
    [] k = "exited" ->
      <<"[", "I", "N", "F", "O", "]", " ", "A", "g", "e", "n", "t", " ",
        "e", "x", "i", "t", "e", "d", " ", "(", "P", "I", "D", ":", " ",
        "7", ",", " ", "c", "o", "d", "e", ":", " ", "0", ")">>
    [] k = "status" ->
      <<"[", "I", "N", "F", "O", "]", " ", "P", "o", "s", "t", "-", "e",
        "x", "e", "c", "u", "t", "i", "o", "n", ":", " ", "T", "a", "s",
        "k", " ", "c", "o", "m", "p", "l", "e", "t", "i", "o", "n", " ",
        "s", "t", "a", "t", "u", "s">>
    [] k = "completed" ->
      <<"[", "S", "U", "C", "C", "E", "S", "S", "]", " ", "T", "a", "s",
        "k", " ", "C", "O", "M", "P", "L", "E", "T", "E", "D", "!">>
    [] k = "git-timeout" ->
      <<"[", "E", "R", "R", "O", "R", "]", " ", "G", "i", "t", " ", "o",
        "p", "e", "r", "a", "t", "i", "o", "n", " ", "t", "i", "m", "e",
        "o", "u", "t", " ", "a", "f", "t", "e", "r", " ", "6", "0", "s">>
    [] k = "incomplete" ->
      <<"[", "W", "A", "R", "N", "]", " ", "T", "a", "s", "k", " ", "n",
        "o", "t", " ", "m", "a", "r", "k", "e", "d", " ", "c", "o", "m",
        "p", "l", "e", "t", "e", ",", " ", "r", "e", "t", "r", "y", "i",
        "n", "g", ".", ".", ".">>
    [] k = "failed" ->
      <<"[", "E", "R", "R", "O", "R", "]", " ", "E", "x", "e", "c", "u",
        "t", "i", "o", "n", " ", "f", "a", "i", "l", "e", "d", ":", " ",
        "E", "x", "i", "t", " ", "c", "o", "d", "e", " ", "1">>
    [] k = "timeout" ->
      <<"[", "E", "R", "R", "O", "R", "]", " ", "A", "g", "e", "n", "t",
        " ", "t", "i", "m", "e", "o", "u", "t", " ", "d", "e", "t", "e",
        "c", "t", "e", "d", " ", "-", " ", "a", "t", "t", "e", "m", "p",
        "t", "i", "n", "g", " ", "t", "o", " ", "k", "i", "l", "l", " ",
        "p", "r", "o", "c", "e", "s", "s", " ", "(", "P", "I", "D", ":",
        " ", "7", ")">>
    [] k = "failed-timeout" ->
      <<"[", "E", "R", "R", "O", "R", "]", " ", "E", "x", "e", "c", "u",
        "t", "i", "o", "n", " ", "f", "a", "i", "l", "e", "d", ":", " ",
        "T", "a", "s", "k", " ", "e", "x", "e", "c", "u", "t", "i", "o",
        "n", " ", "t", "i", "m", "e", "o", "u", "t", " ", "a", "f", "t",
        "e", "r", " ", "1", "8", "0", "0", "s">>
    [] k = "cooldown" ->
      <<"[", "I", "N", "F", "O", "]", " ", "C", "o", "o", "l", "i", "n",
        "g", " ", "d", "o", "w", "n", " ", "5", "s", ".", ".", ".">>
    [] k = "invalid-provider" ->
      <<"[", "E", "R", "R", "O", "R", "]", " ", "I", "n", "v", "a", "l",
        "i", "d", " ", "A", "I", "_", "P", "R", "O", "V", "I", "D", "E",
        "R", ":", " ", "x", ".", " ", "V", "a", "l", "i", "d", " ", "o",
        "p", "t", "i", "o", "n", "s", ":", " ", "b", "e", "d", "r", "o",
        "c", "k", ",", " ", "a", "n", "t", "h", "r", "o", "p", "i", "c",
        ",", " ", "s", "u", "b", "s", "c", "r", "i", "p", "t", "i", "o", "n">>

logLine(k, i, title) == [kind |-> k, id |-> i, text |-> message(k, i, title)]

iterationLog(i, title, o) ==
  LET l(k) == logLine(k, i, title)
      start == <<l("start"), l("model"), l("attempt")>>
      spawn == <<l("spawning"), l("spawned")>>
      done == <<l("exited"), l("status"), l("completed")>>
  IN  IF o = "unspawned" THEN start \o <<l("invalid-provider")>>
      ELSE IF o = "cut" THEN start \o spawn
      ELSE IF o = "completed" THEN start \o spawn \o done \o <<l("cooldown")>>
      ELSE IF o = "commit-timeout"
        THEN start \o spawn \o done \o <<l("git-timeout"), l("cooldown")>>
      ELSE IF o = "incomplete"
        THEN start \o spawn
               \o <<l("exited"), l("status"), l("incomplete"), l("cooldown")>>
      ELSE IF o = "echo"
        THEN start \o spawn
               \o <<l("output"), l("exited"), l("status"), l("incomplete"),
                    l("cooldown")>>
      ELSE IF o = "failed"
        THEN start \o spawn \o <<l("exited"), l("failed"), l("cooldown")>>
      ELSE start \o spawn \o <<l("timeout"), l("failed-timeout"), l("cooldown")>>

\* /Task \d+:/
taskNumberColon(text) ==
  \E i \in 1..Len(text) :
    /\ occursAt(text, <<"T", "a", "s", "k", " ">>, i)
    /\ \E j \in (i + 5)..Len(text) :
         /\ j > i + 5
         /\ text[j] = ":"
         /\ \A k \in (i + 5)..(j - 1) : isDigit(text[k])

\* What analyzeLog tests on a line.
isTaskStart(line) ==
  /\ includes(line.text, <<"[", "I", "N", "F", "O", "]", " ", "T", "a", "s", "k">>)
  /\ taskNumberColon(line.text)
hasSpawning(line) ==
  includes(line.text,
           <<"S", "p", "a", "w", "n", "i", "n", "g", " ", "C", "l", "a",
             "u", "d", "e", " ", "C", "o", "d", "e", " ", "a", "g", "e",
             "n", "t">>)
hasSuccess(line) ==
  \/ includes(line.text, <<"[", "S", "U", "C", "C", "E", "S", "S", "]">>)
  \/ includes(line.text, <<"C", "O", "M", "P", "L", "E", "T", "E", "D", "!">>)
hasTimeout(line) == includes(line.text, <<"t", "i", "m", "e", "o", "u", "t">>)
hasGitTimeout(line) ==
  includes(line.text,
           <<"G", "i", "t", " ", "o", "p", "e", "r", "a", "t", "i", "o",
             "n", " ", "t", "i", "m", "e", "o", "u", "t">>)

\* The parse loop of analyzeLog: a start line opens a new entry, every line
\* is counted for the entry that was opened last.
RECURSIVE parseLog(_, _)
parseLog(lines, tasks) ==
  IF lines = <<>> THEN tasks
  ELSE LET line == Head(lines)
           opened == IF isTaskStart(line)
                       THEN Append(tasks, [id |-> line.id, spawned |-> FALSE,
                                           completed |-> FALSE, timedOut |-> FALSE,
                                           gitTimeout |-> FALSE])
                       ELSE tasks
           n == Len(opened)
           current == IF n = 0 THEN opened
                      ELSE [opened EXCEPT
                              ![n].spawned = @ \/ hasSpawning(line),
                              ![n].completed = @ \/ hasSuccess(line),
                              ![n].timedOut = @ \/ hasTimeout(line),
                              ![n].gitTimeout = @ \/ hasGitTimeout(line)]
       IN  parseLog(Tail(lines), current)

idsOf(entries) == [k \in 1..Len(entries) |-> entries[k].id]

isHung(t) == t.spawned /\ ~t.completed
isCompleted(t) == t.completed
isFailed(t) == ~t.spawned \/ (~t.completed /\ ~t.spawned)

\* The "Cause:" line of a hung task.
causeOf(t) ==
  IF t.timedOut THEN "Task execution timeout (30 minutes)"
  ELSE IF t.gitTimeout THEN "Git operation timeout (1 minute)"
  ELSE "Unknown - no timeout logged"

causesOf(entries) == [k \in 1..Len(entries) |-> causeOf(entries[k])]

\* analyzeLog on a log that exists: the task ids printed under HUNG TASKS
\* with the cause printed for each, and those under COMPLETED TASKS and
\* FAILED/INCOMPLETE TASKS, in the order printed.
analyzeLog(log) ==
  LET tasks == parseLog(log, <<>>)
  IN  [printed |-> TRUE,
       hung |-> idsOf(SelectSeq(tasks, isHung)),
       causes |-> causesOf(SelectSeq(tasks, isHung)),
       completed |-> idsOf(SelectSeq(tasks, isCompleted)),
       failed |-> idsOf(SelectSeq(tasks, isFailed))]

\* ------------------------------------------------------------------ state
VARIABLES
  tasksExists,      \* cookie-crumbs.md exists
  rulesExists,      \* creme-filling.md exists
  git,              \* the repository and what setupGitBranch did with it
  pr,               \* what the push and pull-request steps will meet
  sessionMeta,      \* cookie-crumbs.md: its **Session** and **Created** lines
  workFiles,        \* the content of those of WorkFiles that exist
  archives,         \* archives/: the content of each archive directory
  tests,            \* tests/: the .js files of its root
  reusable,         \* tests/reusable/: its files
  outcome,          \* how the last archiveSession and resetSessionFiles ended
  envFile,          \* oroboreo/.env as loadEnv read it (never written)
  processEnv,       \* process.env of the loop process
  tasksFile,        \* cookie-crumbs.md: the task lines, in document order
  pc,               \* position of main
  loops,            \* let loops
  taskAttempts,     \* const taskAttempts = {} ; a missing key reads as 0
  task,             \* const task of the iteration (NoTask outside one)
  model,            \* const model of the iteration (NoModel outside one)
  attempts,         \* const attempts of the iteration
  env,              \* const env handed to spawn in the iteration
  child,            \* the process currentChildProcess refers to
  orphans,          \* TRUE while a child of an earlier invocation still runs
  report,           \* what the iteration logged about its invocation and the
                    \* entries it appended to costs.json
  isShuttingDown,   \* let isShuttingDown
  cooldownT,        \* timer of the cooldown promise
  hungKillT,        \* SIGKILL timer armed by the timeout handler
  shutdownKillT,    \* SIGKILL timer armed by gracefulShutdown
  shutdownExitT,    \* process.exit(1) timer armed by gracefulShutdown
  exitCode,         \* exit code of the loop process, Running while it runs
  halt,             \* the way the process ended
  archiveCalls,     \* calls of archiveSession made by the loop
  resetCalls,       \* calls of resetSessionFiles made by the loop
  logFile,          \* oroboreo-execution.log as oreo-diagnose.js reads it
  analysis,         \* the report analyzeLog printed
  heartbeat,        \* the heartbeatInterval timers that are armed
  staleTimeouts,    \* TRUE while the timeout timer of an invocation that
                    \* ended by itself is armed
  beat,             \* the invocation the last heartbeat line was about
  staleFired        \* TRUE once such a timeout timer fired during a later await

startVars == <<rulesExists, git, pr>>

diagVars == <<logFile, analysis>>

watchVars == <<heartbeat, staleTimeouts>>

eventVars == <<beat, staleFired>>

archiveVars == <<tasksExists, sessionMeta, workFiles, archives, tests, reusable,
                 outcome>>

vars == <<envFile, processEnv, tasksFile, pc, loops, taskAttempts, task, model, attempts,
          env, child, orphans, report, isShuttingDown, cooldownT, hungKillT,
          shutdownKillT, shutdownExitT, exitCode, halt, archiveCalls, resetCalls,
          startVars, archiveVars, diagVars, watchVars, eventVars>>

loopVars == <<processEnv, pc, loops, taskAttempts, task, model, attempts, env, report,
              isShuttingDown, cooldownT, hungKillT, shutdownKillT, shutdownExitT,
              exitCode, halt, archiveCalls, resetCalls>>

timerVars == <<cooldownT, hungKillT, shutdownKillT, shutdownExitT>>

Running == 0 - 1
NoTask == [id |-> 0, line |-> 0, title |-> <<>>, details |-> <<>>, completed |-> FALSE]
NoModel == "none"
NoAnalysis ==
  [printed |-> FALSE, hung |-> <<>>, causes |-> <<>>, completed |-> <<>>,
   failed |-> <<>>]
NoReport == [status |-> "none", commit |-> "none", costEntries |-> 0]

\* A repository on main in which every git command works, and a gh CLI
\* that is logged in.
plainGit ==
  [branch |-> "main", failure |-> "none", dirty |-> FALSE, ran |-> FALSE,
   setup |-> "none", base |-> "none", commands |-> <<>>]
plainPr == [autoCreatePR |-> TRUE, gh |-> "ok", push |-> "ok"]
NoOutcome == [archive |-> "none", reset |-> "none"]
\* No heartbeat interval is armed: neither the one of the child that
\* currentChildProcess refers to nor one of an earlier child.
NoHeartbeat == [current |-> FALSE, earlier |-> FALSE]

\* The loop process when main begins.
InitLoop(ids) ==
  /\ processEnv = envFile
  /\ pc = "startup"
  /\ loops = 0
  /\ taskAttempts = [i \in ids |-> 0]
  /\ task = NoTask
  /\ model = NoModel
  /\ attempts = 0
  /\ env = clearProviderEnv(envFile)
  /\ child = "none"
  /\ orphans = FALSE
  /\ report = NoReport
  /\ isShuttingDown = FALSE
  /\ cooldownT = NoTimer
  /\ hungKillT = NoTimer
  /\ shutdownKillT = NoTimer
  /\ shutdownExitT = NoTimer
  /\ exitCode = Running
  /\ halt = "none"
  /\ archiveCalls = 0
  /\ resetCalls = 0
  /\ outcome = NoOutcome
  /\ heartbeat = NoHeartbeat
  /\ staleTimeouts = FALSE
  /\ beat = "none"
  /\ staleFired = FALSE

InitMain == InitLoop(TaskIds)

\* The working directory of a session: every working file is there with
\* what the session wrote, tests/ holds a generic and a task test, nothing
\* was archived yet.
InitSession ==
  /\ sessionMeta = [name |-> <<"alpha">>, created |-> "09:00"]
  /\ workFiles = [f \in WorkFiles |-> <<"a">>]
  /\ archives = <<>>
  /\ tests = [t \in TestNames |-> cleanScript]
  /\ reusable = <<>>

\* No post-mortem was asked for.
InitLog ==
  /\ logFile = <<>>
  /\ analysis = NoAnalysis

\* The runs of the loop start in a session directory, on main, with git
\* and gh in working order.
Init ==
  /\ envFile \in EnvFiles
  /\ tasksFile \in TaskStores
  /\ InitMain
  /\ InitSession
  /\ InitLog
  /\ tasksExists = TRUE
  /\ rulesExists = TRUE
  /\ git = plainGit
  /\ pr = plainPr

\* process.exit(code): the process is gone, its timers with it.
Exit(code, how) ==
  /\ pc' = "exited"
  /\ exitCode' = code
  /\ halt' = how
  /\ cooldownT' = NoTimer
  /\ hungKillT' = NoTimer
  /\ shutdownKillT' = NoTimer
  /\ shutdownExitT' = NoTimer
  /\ heartbeat' = NoHeartbeat
  /\ staleTimeouts' = FALSE

\* The event loop is free to run handlers only while main is suspended in an
\* await (or has returned).
Idle == pc \in {"await", "cooldown", "drain"}

hasPid(c) == c \in {"alive", "killed", "exited"}

\* ---------------------------------------------------------------- startup
\* main, from loadEnv to the first test of the while condition: the provider
\* is validated (bedrock by AWS_ACCESS_KEY_ID alone), then the task store
\* and the system rules must exist, then setupGitBranch runs and its result
\* is dropped.
Startup ==
  /\ pc = "startup"
  /\ LET p == providerOf(processEnv)
         bedrockOk == p = "bedrock" /\ processEnv.AWS_ACCESS_KEY_ID # Undef
         providerOk == \/ bedrockOk
                       \/ p = "anthropic" /\ processEnv.ANTHROPIC_API_KEY # Undef
                       \/ p = "subscription"
     IN  /\ processEnv' =
              IF bedrockOk
                THEN [processEnv EXCEPT
                        !.CLAUDE_CODE_USE_BEDROCK = "1",
                        !.AWS_REGION = orElse(processEnv.AWS_REGION, "us-east-1")]
                ELSE processEnv
         /\ IF ~providerOk \/ ~tasksExists \/ ~rulesExists
              THEN /\ Exit(1, "precondition")
                   /\ UNCHANGED git
              ELSE /\ git' = setupGitBranch(git, tasksExists, tasksFile)
                   /\ pc' = "loop"
                   /\ UNCHANGED <<timerVars, watchVars, exitCode, halt>>
  /\ UNCHANGED <<envFile, diagVars, eventVars, rulesExists, pr, archiveVars, tasksFile, loops, taskAttempts,
                 task, model, attempts, env, child, orphans, report, isShuttingDown,
                 archiveCalls, resetCalls>>

\* ------------------------------------------------------- archive and reset
existsLive(f) ==
  IF f = "cookie-crumbs.md" THEN tasksExists ELSE f \in DOMAIN workFiles

liveContent(f) ==
  IF f = "cookie-crumbs.md" THEN [meta |-> sessionMeta, lines |-> tasksFile]
  ELSE workFiles[f]

\* FILES_TO_ARCHIVE.forEach, stopped after k files: the copies made.
copyFiles(k) ==
  [f \in {g \in {FILES_TO_ARCHIVE[i] : i \in 1..k} : existsLive(g)} |->
     liveContent(f)]

\* Every reusable test replaces the file of its name in tests/reusable.
reusableOverwritten ==
  LET moved == {t \in DOMAIN tests : isTestReusable(t, tests[t])}
  IN  [f \in DOMAIN reusable \cup moved |->
         IF f \in moved THEN tests[f] ELSE reusable[f]]

\* archiveTests: tests/reusable after it.  A reusable test is copied only
\* if (!fs.existsSync(reusablePath)).
reusableAfter ==
  LET moved == {t \in DOMAIN tests : isTestReusable(t, tests[t])}
  IN  [f \in DOMAIN reusable \cup moved |->
         IF f \in DOMAIN reusable THEN reusable[f] ELSE tests[f]]

\* archiveTests: the tests copied to <archive>/tests.
archivedTests ==
  [t \in {u \in DOMAIN tests : ~isTestReusable(u, tests[u])} |-> tests[t]]

numeral(n) == digit(n)

\* extractSessionSummary(archivePath), read from the archived store.
extractSessionSummary(dir) ==
  IF "cookie-crumbs.md" \notin DOMAIN dir.files
    THEN <<"No previous session data.">>
  ELSE LET c == dir.files["cookie-crumbs.md"]
           completed == Cardinality({i \in 1..Len(c.lines) : c.lines[i].mark = "x"})
       IN  <<"Session">> \o c.meta.name
             \o <<"completed", numeral(completed), numeral(Len(c.lines))>>

\* The templates resetSessionFiles writes over the other working files.
resetFiles(dir, archivePath) ==
  [f \in WorkFiles |->
     CASE f = "human-feedback.md" -> <<"feedbackTemplate">>
       [] f = "progress.txt" ->
            <<"progressTemplate">> \o archivePath \o extractSessionSummary(dir)
       [] f = "costs.json" -> <<"emptyCosts">>
       [] f = "oreo-execution.log" -> <<>>]

\* The catch of the Done path logs 'Archive failed' and the exit code
\* becomes 1.
doneExitCodeOfFailure(o) ==
  IF o.archive = "threw" \/ o.reset = "threw" THEN 1 ELSE 0

\* The catch of the Done path logs 'Archive failed'; process.exit(0) follows
\* the try statement.
doneExitCode(o) == 0

\* The same with a caller that resets whatever archiveSession returned.
ArchiveAndResetIgnoringNull(withReset) ==
  LET dirs == DOMAIN archives
      archivePath == getArchivePath(dirs, archiveFolder(tasksExists, sessionMeta))
      n == Len(FILES_TO_ARCHIVE)
      made(d) == [q \in dirs \cup {archivePath} |->
                    IF q = archivePath THEN d ELSE archives[q]]
      full == [files |-> copyFiles(n), tests |-> archivedTests, summary |-> TRUE]
  IN  \/ /\ outcome' = [archive |-> "threw", reset |-> "none"]
         /\ \/ UNCHANGED archives
            \/ \E k \in {0, n} :
                 /\ DOMAIN copyFiles(n) # {}
                 /\ archives' = made([files |-> copyFiles(k), tests |-> <<>>,
                                      summary |-> FALSE])
         /\ UNCHANGED <<tasksFile, tasksExists, sessionMeta, workFiles, tests, reusable>>
      \/ /\ DOMAIN copyFiles(n) = {}
         /\ archives' = made([files |-> <<>>, tests |-> <<>>, summary |-> FALSE])
         /\ IF withReset
              THEN /\ tasksFile' = cookieCrumbsTemplate
                   /\ tasksExists' = TRUE
                   /\ sessionMeta' = templateMeta
                   /\ workFiles' = resetFiles([files |-> <<>>], archivePath)
                   /\ outcome' = [archive |-> "nothing",
                                  reset |-> IF gitCommitArchive(pr) = "returned"
                                              THEN createPullRequest(pr)
                                              ELSE "threw"]
              ELSE /\ outcome' = [archive |-> "nothing", reset |-> "none"]
                   /\ UNCHANGED <<tasksFile, tasksExists, sessionMeta, workFiles>>
         /\ UNCHANGED <<tests, reusable>>
      \/ /\ DOMAIN copyFiles(n) # {}
         /\ archives' = made(full)
         /\ tests' = <<>>
         /\ reusable' = reusableAfter
         /\ IF withReset
              THEN /\ tasksFile' = cookieCrumbsTemplate
                   /\ tasksExists' = TRUE
                   /\ sessionMeta' = templateMeta
                   /\ workFiles' = resetFiles(full, archivePath)
                   /\ outcome' = [archive |-> "archived",
                                  reset |-> IF gitCommitArchive(pr) = "returned"
                                              THEN createPullRequest(pr)
                                              ELSE "threw"]
              ELSE /\ outcome' = [archive |-> "archived", reset |-> "none"]
                   /\ UNCHANGED <<tasksFile, tasksExists, sessionMeta, workFiles>>

\* archiveSession(), then resetSessionFiles(archivePath) if a path came
\* back and the caller resets.  getArchivePath makes the directory first.
\* The file system may fail: mkdirSync throws, or the new directory cannot
\* be written and the first copy throws, or archiveTests throws before it
\* has moved a test.  With nothing copied null is returned.
\* resetSessionFiles writes the templates, commits and pushes, and ends in
\* createPullRequest.
ArchiveAndReset(withReset) ==
  LET dirs == DOMAIN archives
      archivePath == getArchivePath(dirs, archiveFolder(tasksExists, sessionMeta))
      n == Len(FILES_TO_ARCHIVE)
      made(d) == [q \in dirs \cup {archivePath} |->
                    IF q = archivePath THEN d ELSE archives[q]]
      full == [files |-> copyFiles(n), tests |-> archivedTests, summary |-> TRUE]
  IN  \/ /\ outcome' = [archive |-> "threw", reset |-> "none"]
         /\ \/ UNCHANGED archives
            \/ \E k \in {0, n} :
                 /\ DOMAIN copyFiles(n) # {}
                 /\ archives' = made([files |-> copyFiles(k), tests |-> <<>>,
                                      summary |-> FALSE])
         /\ UNCHANGED <<tasksFile, tasksExists, sessionMeta, workFiles, tests, reusable>>
      \/ /\ DOMAIN copyFiles(n) = {}
         /\ outcome' = [archive |-> "nothing", reset |-> "none"]
         /\ archives' = made([files |-> <<>>, tests |-> <<>>, summary |-> FALSE])
         /\ UNCHANGED <<tasksFile, tasksExists, sessionMeta, workFiles, tests, reusable>>
      \/ /\ DOMAIN copyFiles(n) # {}
         /\ archives' = made(full)
         /\ tests' = <<>>
         /\ reusable' = reusableAfter
         /\ IF withReset
              THEN /\ tasksFile' = cookieCrumbsTemplate
                   /\ tasksExists' = TRUE
                   /\ sessionMeta' = templateMeta
                   /\ workFiles' = resetFiles(full, archivePath)
                   /\ outcome' = [archive |-> "archived",
                                  reset |-> IF gitCommitArchive(pr) = "returned"
                                              THEN createPullRequest(pr)
                                              ELSE "threw"]
              ELSE /\ outcome' = [archive |-> "archived", reset |-> "none"]
                   /\ UNCHANGED <<tasksFile, tasksExists, sessionMeta, workFiles>>

\* ------------------------------------------------------------ the iteration
\* while (loops < CONFIG.maxGlobalLoops) fails: main returns.
MaxLoopsReached ==
  /\ pc = "loop"
  /\ ~(loops < maxGlobalLoops)
  /\ pc' = "drain"
  /\ UNCHANGED <<envFile, diagVars, eventVars, watchVars, startVars, archiveVars, processEnv, tasksFile, loops, taskAttempts, task, model, attempts,
                 env, child, orphans, report, isShuttingDown, timerVars, exitCode,
                 halt, archiveCalls, resetCalls>>

\* if (!task): archiveSession, resetSessionFiles when it returned a path,
\* process.exit(0).  archiveSession may throw; the catch logs it.
AllTasksComplete ==
  /\ pc = "loop"
  /\ loops < maxGlobalLoops
  /\ FirstIncomplete(parseTasks(tasksFile)) = 0
  /\ loops' = loops + 1
  /\ archiveCalls' = archiveCalls + 1
  /\ ArchiveAndReset(TRUE)
  /\ resetCalls' = IF outcome'.reset = "none" THEN resetCalls ELSE resetCalls + 1
  /\ Exit(doneExitCode(outcome'), "done")
  /\ UNCHANGED <<envFile, diagVars, eventVars, startVars, processEnv, taskAttempts, task, model, attempts, env,
                 child, orphans, report, isShuttingDown>>

\* The comparison with > in place of >=.
retryLimitReachedStrict(n) == n > maxRetriesPerTask

\* attempts >= CONFIG.maxRetriesPerTask
retryLimitReached(n) == n >= maxRetriesPerTask

\* "Task N failed 5 times. Aborting." and process.exit(1)
RetryLimit ==
  /\ pc = "loop"
  /\ loops < maxGlobalLoops
  /\ LET tasks == parseTasks(tasksFile)
         i == FirstIncomplete(tasks)
     IN  /\ i # 0
         /\ retryLimitReached(taskAttempts[tasks[i].id])
         /\ task' = tasks[i]
         /\ attempts' = taskAttempts[tasks[i].id]
  /\ loops' = loops + 1
  /\ Exit(1, "abort")
  /\ UNCHANGED <<envFile, diagVars, eventVars, startVars, archiveVars, processEnv, tasksFile, taskAttempts, model, env, child, orphans,
                 report, isShuttingDown, archiveCalls, resetCalls>>

\* Steps 3 to 5 up to the await: the env is built, the child is spawned and
\* currentChildProcess refers to it.  A spawn that fails gives a child
\* object without pid whose 'error' event follows.
SpawnAgent ==
  /\ pc = "loop"
  /\ loops < maxGlobalLoops
  /\ LET tasks == parseTasks(tasksFile)
         i == FirstIncomplete(tasks)
     IN  /\ i # 0
         /\ ~retryLimitReached(taskAttempts[tasks[i].id])
         /\ task' = tasks[i]
         /\ model' = selectModel(tasks[i])
         /\ attempts' = taskAttempts[tasks[i].id]
  /\ loops' = loops + 1
  /\ env' = childEnv(processEnv)
  /\ processEnv' = clearProviderEnv(processEnv)
  /\ child' \in {"alive", "nopid"}
  /\ orphans' = (orphans \/ child = "alive")
  /\ heartbeat' = [current |-> TRUE, earlier |-> heartbeat.earlier \/ child = "alive"]
  /\ pc' = "await"
  /\ UNCHANGED <<envFile, diagVars, eventVars, staleTimeouts, startVars, archiveVars, tasksFile, taskAttempts, report, isShuttingDown, timerVars,
                 exitCode, halt, archiveCalls, resetCalls>>

\* The cooldown await at the end of the iteration; task and attempts are
\* not read after it.
Cooldown ==
  /\ pc' = "cooldown"
  /\ cooldownT' = cooldownTicks
  /\ task' = NoTask
  /\ model' = NoModel
  /\ attempts' = 0

\* trackCost: costLog.tasks.push(...) and saveCostLog, on the number of
\* entries of the ledger.
trackCost(entries) == entries + 1

\* The catch of the iteration: "Execution failed", attempts + 1.
ExecutionFailed ==
  /\ taskAttempts' = [taskAttempts EXCEPT ![task.id] = attempts + 1]
  /\ report' = [status |-> "FAILED", commit |-> "none", costEntries |-> 0]

\* The post-execution check of a gitCommit that let its failure escape into
\* the catch of the iteration.
PostExecutionCommitThrows ==
  IF isCompleteById(parseTasks(tasksFile), task.id)
    THEN \E c \in {"ok", "failed"} :
           /\ taskAttempts' = [taskAttempts EXCEPT ![task.id] =
                                 IF c = "ok" THEN 0 ELSE attempts + 1]
           /\ report' = [status |-> IF c = "ok" THEN "COMPLETED" ELSE "FAILED",
                         commit |-> c, costEntries |-> trackCost(0)]
    ELSE /\ taskAttempts' = [taskAttempts EXCEPT ![task.id] = attempts + 1]
         /\ report' = [status |-> "INCOMPLETE", commit |-> "none",
                       costEntries |-> trackCost(0)]

\* 6. Post-execution check, after the race resolved: re-parse, look the
\* task up by id, reset or count the attempt, commit on success (gitCommit
\* catches its own failures).
PostExecution ==
  IF isCompleteById(parseTasks(tasksFile), task.id)
    THEN /\ taskAttempts' = [taskAttempts EXCEPT ![task.id] = 0]
         /\ \E c \in {"ok", "failed"} :
              report' = [status |-> "COMPLETED", commit |-> c,
                         costEntries |-> trackCost(0)]
    ELSE /\ taskAttempts' = [taskAttempts EXCEPT ![task.id] = attempts + 1]
         /\ report' = [status |-> "INCOMPLETE", commit |-> "none",
                       costEntries |-> trackCost(0)]

\* ------------------------------------------------------------- the agent
\* The external agent rewrites cookie-crumbs.md while it runs: it sets the
\* checkbox of a line, removes a line (or leaves it unparseable), or adds a
\* task line.
AgentEdit ==
  /\ pc # "exited"
  /\ child = "alive" \/ orphans
  /\ \/ \E i \in 1..Len(tasksFile), m \in Marks :
          /\ tasksFile[i].mark # m
          /\ tasksFile' = [tasksFile EXCEPT ![i].mark = m]
     \/ \E i \in 1..Len(tasksFile) :
          tasksFile' = [j \in 1..(Len(tasksFile) - 1) |->
                          IF j < i THEN tasksFile[j] ELSE tasksFile[j + 1]]
     \/ \E l \in TaskLine :
          /\ Len(tasksFile) < MaxTasks
          /\ tasksFile' = Append(tasksFile, l)
  /\ UNCHANGED <<envFile, diagVars, eventVars, watchVars, startVars, archiveVars, child, orphans, loopVars>>

\* The edit the prompt asks for: the agent checks the box of the task it
\* was given.
AgentCompletesTask ==
  /\ pc = "await"
  /\ child = "alive"
  /\ tasksFile[task.line].mark = " "
  /\ tasksFile' = [tasksFile EXCEPT ![task.line].mark = "x"]
  /\ UNCHANGED <<envFile, diagVars, eventVars, watchVars, startVars, archiveVars, child, orphans, loopVars>>

\* Exit codes of the agent: 0 and one that is not 0.
ExitCodes == {0, 1}

\* childProcess.on('exit') of the awaited child: code 0 resolves the
\* execution promise and main goes on to the post-execution check; any
\* other code rejects it.
AgentExit(code) ==
  /\ pc = "await"
  /\ child = "alive"
  /\ child' = "exited"
  /\ heartbeat' = [heartbeat EXCEPT !.current = FALSE]
  /\ staleTimeouts' = TRUE
  /\ IF code = 0 THEN PostExecution ELSE ExecutionFailed
  /\ Cooldown
  /\ UNCHANGED <<envFile, diagVars, eventVars, startVars, archiveVars, processEnv, tasksFile, loops, env, orphans,
                 isShuttingDown, hungKillT, shutdownKillT, shutdownExitT, exitCode,
                 halt, archiveCalls, resetCalls>>

\* 'exit' of a child that SIGKILL ended (code null): it rejects the
\* execution promise if main still awaits it, and is ignored otherwise.
KilledChildExit ==
  /\ Idle
  /\ child = "killed"
  /\ child' = "exited"
  /\ heartbeat' = [heartbeat EXCEPT !.current = FALSE]
  /\ staleTimeouts' = (staleTimeouts \/ pc = "await")
  /\ IF pc = "await"
       THEN ExecutionFailed /\ Cooldown
       ELSE UNCHANGED <<taskAttempts, report, pc, cooldownT, task, model, attempts>>
  /\ UNCHANGED <<envFile, diagVars, eventVars, startVars, archiveVars, processEnv, tasksFile, loops, env, orphans,
                 isShuttingDown, hungKillT, shutdownKillT, shutdownExitT, exitCode,
                 halt, archiveCalls, resetCalls>>

\* childProcess.on('error'): the spawn failed.
AgentSpawnError ==
  /\ pc = "await"
  /\ child = "nopid"
  /\ heartbeat' = [heartbeat EXCEPT !.current = FALSE]
  /\ staleTimeouts' = TRUE
  /\ ExecutionFailed
  /\ Cooldown
  /\ UNCHANGED <<envFile, diagVars, eventVars, startVars, archiveVars, processEnv, tasksFile, loops, env, child,
                 orphans, isShuttingDown, hungKillT, shutdownKillT, shutdownExitT,
                 exitCode, halt, archiveCalls, resetCalls>>

\* The timeout promise rejects first: SIGTERM to the child and a SIGKILL
\* timer, or "Failed to kill hung process" when process.kill throws; then
\* the error is rethrown into the catch of the iteration.
TaskTimeout ==
  /\ pc = "await"
  /\ \/ /\ hasPid(child)
        /\ child # "exited"
        /\ hungKillT' = killGraceTicks
     \/ /\ hasPid(child)
        /\ UNCHANGED hungKillT
     \/ /\ ~hasPid(child)
        /\ UNCHANGED hungKillT
  /\ ExecutionFailed
  /\ Cooldown
  /\ UNCHANGED <<envFile, diagVars, eventVars, watchVars, startVars, archiveVars, processEnv, tasksFile, loops, env, child,
                 orphans, isShuttingDown, shutdownKillT, shutdownExitT, exitCode,
                 halt, archiveCalls, resetCalls>>

\* A child that main no longer awaits ends by itself.
LateExit ==
  /\ pc \notin {"await", "exited"}
  /\ child = "alive"
  /\ child' = "exited"
  /\ heartbeat' = [heartbeat EXCEPT !.current = FALSE]
  /\ UNCHANGED <<envFile, diagVars, eventVars, staleTimeouts, startVars, archiveVars, tasksFile, orphans, loopVars>>

\* The last of the earlier children ends; its 'exit' handler clears the
\* heartbeat interval of its invocation.
OrphanExit ==
  /\ pc # "exited"
  /\ orphans
  /\ orphans' = FALSE
  /\ heartbeat' = [heartbeat EXCEPT !.earlier = FALSE]
  /\ UNCHANGED <<envFile, diagVars, eventVars, staleTimeouts, startVars, archiveVars, tasksFile, child, loopVars>>

\* childProcess.on('error') of a child that main no longer awaits.
LateSpawnError ==
  /\ pc \notin {"await", "exited"}
  /\ child = "nopid"
  /\ heartbeat.current
  /\ heartbeat' = [heartbeat EXCEPT !.current = FALSE]
  /\ UNCHANGED <<envFile, diagVars, eventVars, staleTimeouts, startVars, archiveVars,
                 tasksFile, child, orphans, loopVars>>

\* ----------------------------------------------------------------- timers
\* An armed timer is due when its ticks have run out; before any signal
\* no tick is counted and an armed timer may be due at any moment.
Due(t) == t # NoTimer /\ (isShuttingDown => t = 0)

\* The SIGKILL timer of the timeout handler; process.kill throws when the
\* child is gone.
HungKillFires ==
  /\ Idle
  /\ Due(hungKillT)
  /\ hungKillT' = NoTimer
  /\ child' = IF child = "alive" THEN "killed" ELSE child
  /\ UNCHANGED <<envFile, diagVars, eventVars, watchVars, startVars, archiveVars, processEnv, tasksFile, pc, loops, taskAttempts, task, model,
                 attempts, env, orphans, report, isShuttingDown, cooldownT,
                 shutdownKillT, shutdownExitT, exitCode, halt, archiveCalls,
                 resetCalls>>

\* The cooldown promise resolves and main tests the while condition again.
\* A SIGKILL timer of the same iteration was armed before it with the same
\* delay, so it has fired by then.
CooldownFires ==
  /\ pc = "cooldown"
  /\ Due(cooldownT)
  /\ ~Due(hungKillT)
  /\ cooldownT' = NoTimer
  /\ pc' = "loop"
  /\ report' = NoReport
  /\ UNCHANGED <<envFile, diagVars, eventVars, watchVars, startVars, archiveVars, processEnv, tasksFile, loops, taskAttempts, task, model, attempts,
                 env, child, orphans, isShuttingDown, hungKillT,
                 shutdownKillT, shutdownExitT, exitCode, halt, archiveCalls,
                 resetCalls>>

\* process.on('SIGINT' / 'SIGTERM'): gracefulShutdown.  A second signal
\* returns at once.  currentChildProcess is never cleared, so the pid of a
\* child that has exited is signalled too: process.kill throws (second
\* branch) or reaches the process that holds the pid by then.
gracefulShutdown ==
  /\ Idle
  /\ ~isShuttingDown
  /\ isShuttingDown' = TRUE
  /\ \/ /\ hasPid(child)
        /\ shutdownKillT' = killGraceTicks
     \/ /\ child # "none"
        /\ UNCHANGED shutdownKillT
  /\ shutdownExitT' = shutdownExitTicks
  /\ \E r \in 0..cooldownTicks :
       /\ cooldownT' = IF cooldownT = NoTimer THEN NoTimer ELSE r
       /\ hungKillT' = IF hungKillT = NoTimer THEN NoTimer ELSE r
  /\ UNCHANGED <<envFile, diagVars, eventVars, watchVars, startVars, archiveVars, processEnv, tasksFile, pc, loops, taskAttempts, task, model,
                 attempts, env, child, orphans, report, exitCode, halt, archiveCalls,
                 resetCalls>>

\* The SIGKILL timer of gracefulShutdown reads currentChildProcess when it
\* fires.
ShutdownKillFires ==
  /\ Idle
  /\ shutdownKillT = 0
  /\ shutdownKillT' = NoTimer
  /\ child' = IF child = "alive" THEN "killed" ELSE child
  /\ UNCHANGED <<envFile, diagVars, eventVars, watchVars, startVars, archiveVars, processEnv, tasksFile, pc, loops, taskAttempts, task, model,
                 attempts, env, orphans, report, isShuttingDown, cooldownT, hungKillT,
                 shutdownExitT, exitCode, halt, archiveCalls, resetCalls>>

\* setTimeout(() => process.exit(1), 6000)
ShutdownExitFires ==
  /\ Idle
  /\ shutdownExitT = 0
  /\ Exit(1, "shutdown")
  /\ UNCHANGED <<envFile, diagVars, eventVars, startVars, archiveVars, processEnv, tasksFile, loops, taskAttempts, task, model, attempts,
                 env, child, orphans, report, isShuttingDown, archiveCalls, resetCalls>>

Armed == {t \in {cooldownT, hungKillT, shutdownKillT, shutdownExitT} : t # NoTimer}

dec(t) == IF t = NoTimer THEN NoTimer ELSE t - 1

\* One tick passes; a timer that is due fires before the next tick.
Tick ==
  /\ Idle
  /\ isShuttingDown
  /\ Armed # {}
  /\ \A t \in Armed : t > 0
  /\ cooldownT' = dec(cooldownT)
  /\ hungKillT' = dec(hungKillT)
  /\ shutdownKillT' = dec(shutdownKillT)
  /\ shutdownExitT' = dec(shutdownExitT)
  /\ UNCHANGED <<envFile, diagVars, eventVars, watchVars, startVars, archiveVars, processEnv, tasksFile, pc, loops, taskAttempts, task, model,
                 attempts, env, child, orphans, report, isShuttingDown, exitCode, halt,
                 archiveCalls, resetCalls>>

\* The callback of a heartbeatInterval: a log line about the child of its
\* invocation.  "awaited" when main awaits that invocation, "stale" when
\* main has gone on.
HeartbeatTick ==
  /\ Idle
  /\ \E which \in {"current", "earlier"} :
       /\ heartbeat[which]
       /\ beat' = IF which = "current" /\ pc = "await" THEN "awaited" ELSE "stale"
  /\ UNCHANGED <<envFile, diagVars, staleFired, watchVars, startVars, archiveVars,
                 tasksFile, child, orphans, loopVars>>

\* The callback of the timeout timer of an invocation whose race was
\* settled by the execution promise, run as if the race were still open:
\* the kill and the rethrow of the timeout handler reach the invocation
\* that main awaits.
StaleTimeoutFiresIntoRace ==
  /\ Idle
  /\ staleTimeouts
  /\ staleTimeouts' = FALSE
  /\ staleFired' = (staleFired \/ pc = "await")
  /\ IF pc = "await"
       THEN /\ hungKillT' = IF child = "alive" THEN killGraceTicks ELSE hungKillT
            /\ ExecutionFailed
            /\ Cooldown
       ELSE UNCHANGED <<hungKillT, taskAttempts, report, pc, cooldownT, task, model,
                        attempts>>
  /\ UNCHANGED <<envFile, diagVars, beat, heartbeat, startVars, archiveVars, processEnv,
                 tasksFile, loops, env, child, orphans, isShuttingDown, shutdownKillT,
                 shutdownExitT, exitCode, halt, archiveCalls, resetCalls>>

\* The callback of the timeout timer of an invocation whose race was
\* settled by the execution promise: reject() on the timeout promise, which
\* the settled race no longer follows.
StaleTimeoutFires ==
  /\ Idle
  /\ staleTimeouts
  /\ staleTimeouts' = FALSE
  /\ staleFired' = (staleFired \/ pc = "await")
  /\ UNCHANGED <<envFile, diagVars, beat, heartbeat, startVars, archiveVars, tasksFile,
                 child, orphans, loopVars>>

\* main returned after "Max loops reached": the process ends with code 0
\* once nothing keeps the event loop alive.  The timeout timers that are
\* left have no handler to reach; the process ends when the last of them
\* has fired.
EventLoopDrains ==
  /\ pc = "drain"
  /\ Armed = {}
  /\ heartbeat = NoHeartbeat
  /\ child \notin {"alive", "killed"}
  /\ ~orphans
  /\ Exit(0, "cap")
  /\ UNCHANGED <<envFile, diagVars, eventVars, startVars, archiveVars, processEnv, tasksFile, loops, taskAttempts, task, model, attempts,
                 env, child, orphans, report, isShuttingDown, archiveCalls, resetCalls>>

Next ==
  \/ Startup
  \/ MaxLoopsReached
  \/ AllTasksComplete
  \/ RetryLimit
  \/ SpawnAgent
  \/ AgentEdit
  \/ \E code \in ExitCodes : AgentExit(code)
  \/ KilledChildExit
  \/ AgentSpawnError
  \/ TaskTimeout
  \/ LateExit
  \/ OrphanExit
  \/ HungKillFires
  \/ CooldownFires
  \/ gracefulShutdown
  \/ ShutdownKillFires
  \/ ShutdownExitFires
  \/ Tick
  \/ HeartbeatTick
  \/ StaleTimeoutFires
  \/ LateSpawnError
  \/ EventLoopDrains

Spec == Init /\ [][Next]_vars

\* Runs in which no interrupt signal arrives.
NextNoSignal ==
  \/ Startup
  \/ MaxLoopsReached
  \/ AllTasksComplete
  \/ RetryLimit
  \/ SpawnAgent
  \/ AgentEdit
  \/ \E code \in ExitCodes : AgentExit(code)
  \/ KilledChildExit
  \/ AgentSpawnError
  \/ TaskTimeout
  \/ LateExit
  \/ OrphanExit
  \/ LateSpawnError
  \/ HungKillFires
  \/ CooldownFires
  \/ EventLoopDrains

SpecNoSignal == Init /\ [][NextNoSignal]_vars

\* Runs with interrupt signals.  Neither gracefulShutdown nor a timer reads
\* the provider, so these runs start from one .env: the direct API key.
InitSignal ==
  /\ Init
  /\ envFile = EnvVar("anthropic", "AKIA", "secret", "eu-west-1", "sk-ant", "fk", Undef)

\* The runs without a signal in which the only edit of the agent is the one
\* the prompt asks for.
NextPlainAgent ==
  \/ Startup
  \/ MaxLoopsReached
  \/ AllTasksComplete
  \/ RetryLimit
  \/ SpawnAgent
  \/ AgentCompletesTask
  \/ \E code \in ExitCodes : AgentExit(code)
  \/ KilledChildExit
  \/ AgentSpawnError
  \/ TaskTimeout
  \/ LateExit
  \/ OrphanExit
  \/ LateSpawnError
  \/ HungKillFires
  \/ CooldownFires
  \/ EventLoopDrains

\* A shutdown reads neither the task store nor the heartbeat, so in the
\* runs with signals the agent edits nothing else; the heartbeat lines and
\* the timeout timers of ended invocations are left to SpecTimers.
NextSignal ==
  \/ NextPlainAgent
  \/ gracefulShutdown
  \/ ShutdownKillFires
  \/ ShutdownExitFires
  \/ Tick

SpecSignal == InitSignal /\ [][NextSignal]_vars

\* The runs without a signal that start from that one .env.
SpecOneProvider == InitSignal /\ [][NextNoSignal]_vars

\* The head of the loop is synchronous code from the while condition to
\* the next await, return or process.exit: one of MaxLoopsReached,
\* AllTasksComplete, RetryLimit and SpawnAgent, whichever the counter and
\* the store select, and main leaves pc = "loop" by it.
LoopHeadRuns == pc = "loop" /\ pc' \in {"await", "drain", "exited"}

\* What the scheduling of the program guarantees.  main goes on whenever a
\* step of it is enabled (the head of the loop is one synchronous step,
\* whichever of its branches the store selects); every timer that is armed fires (the timeout of
\* the race, the SIGKILL timer, the cooldown); a child that SIGKILL reached
\* exits and a spawn that failed emits 'error'; the process ends once
\* nothing keeps the event loop alive.  A child that no signal reached
\* ends when it wants to (LateExit, OrphanExit), and the agent edits what
\* it wants to (AgentEdit): no fairness for them.  While main awaits the
\* race, TaskTimeout is enabled until the race is settled.  The steps of
\* main exclude each other by pc and the events of a child by its state,
\* so each group is one fairness condition.
LoopFairness ==
  /\ WF_vars(Startup \/ CooldownFires \/ EventLoopDrains)
  /\ WF_pc(LoopHeadRuns)
  /\ WF_vars(TaskTimeout)
  /\ WF_vars(HungKillFires)
  /\ WF_vars(KilledChildExit \/ AgentSpawnError \/ LateSpawnError)

\* The runs without a signal under that scheduling.
SpecLive == InitSignal /\ [][NextNoSignal]_vars /\ LoopFairness

\* The runs without a signal in which the heartbeat intervals and the
\* timeout timers of ended invocations fire as well; no timer reads the
\* task store.
NextTimers ==
  \/ NextPlainAgent
  \/ HeartbeatTick
  \/ StaleTimeoutFires

SpecTimers == InitSignal /\ [][NextTimers]_vars

\* Runs in which the agent starts, never touches cookie-crumbs.md and
\* always exits with code 0, and nothing else happens to the loop.
NextNoFlip ==
  \/ Startup
  \/ MaxLoopsReached
  \/ AllTasksComplete
  \/ RetryLimit
  \/ SpawnAgent
  \/ AgentExit(0)
  \/ CooldownFires
  \/ EventLoopDrains

SpecNoFlip == Init /\ [][NextNoFlip]_vars

\* Runs of an agent that does what the prompt asks.  The store holds any
\* number of tasks up to one more than the iteration cap, numbered in
\* document order, some of them done by an earlier run.
LongStores ==
  UNION {{[k \in 1..n |-> [mark |-> m[k], id |-> k, title |-> <<"r", "e", "a", "l">>,
                           details |-> <<>>]] : m \in [1..n -> Marks]}
           : n \in 0..(maxGlobalLoops + 1)}

InitDiligent ==
  /\ envFile = EnvVar("anthropic", "AKIA", "secret", "eu-west-1", "sk-ant", "fk", Undef)
  /\ tasksFile \in LongStores
  /\ InitLoop(1..(maxGlobalLoops + 1))
  /\ InitSession
  /\ InitLog
  /\ tasksExists = TRUE
  /\ rulesExists = TRUE
  /\ git = plainGit
  /\ pr = plainPr

NextDiligent ==
  \/ Startup
  \/ MaxLoopsReached
  \/ AllTasksComplete
  \/ SpawnAgent /\ child' = "alive"
  \/ AgentCompletesTask
  \/ AgentExit(0) /\ tasksFile[task.line].mark = "x"
  \/ CooldownFires
  \/ EventLoopDrains

SpecDiligent == InitDiligent /\ [][NextDiligent]_vars

\* The same runs from every start the loop can meet: a .env with the key
\* id of bedrock but no secret, a missing cookie-crumbs.md or
\* creme-filling.md, the store a reset has just written, any branch checked
\* out and a git command that fails.
StartupEnvFiles ==
  EnvFiles \cup {EnvVar("bedrock", "AKIA", Undef, "eu-west-1", Undef, Undef, Undef)}

InitStartup ==
  /\ envFile \in StartupEnvFiles
  /\ tasksExists \in BOOLEAN
  /\ tasksFile \in IF tasksExists THEN TaskStores \cup {cookieCrumbsTemplate}
                                  ELSE {<<>>}
  /\ rulesExists \in BOOLEAN
  /\ InitMain
  /\ InitSession
  /\ InitLog
  /\ git \in [branch : Branches, failure : GitFailures, dirty : BOOLEAN,
              ran : {FALSE}, setup : {"none"}, base : {"none"},
              commands : {<<>>}]
  /\ pr = plainPr

SpecStartup == InitStartup /\ [][NextNoFlip]_vars

\* ------------------------------------------------------- the archive command
\* main of oreo-archive.js without --list: archiveSession, and
\* resetSessionFiles with --reset.  It is a process of its own; nothing
\* catches what the two functions throw.
ArchiveCli(reset) ==
  /\ Cardinality(DOMAIN archives) < MaxArchives
  /\ ArchiveAndReset(reset)
  /\ UNCHANGED <<envFile, diagVars, eventVars, watchVars, startVars, loopVars, child, orphans>>

\* The user starts oreo-run.js again after a run has ended.
StartRun ==
  /\ pc = "exited"
  /\ Cardinality(DOMAIN archives) < MaxArchives
  /\ processEnv' = envFile
  /\ pc' = "startup"
  /\ loops' = 0
  /\ taskAttempts' = [i \in TaskIds |-> 0]
  /\ task' = NoTask
  /\ model' = NoModel
  /\ attempts' = 0
  /\ env' = clearProviderEnv(envFile)
  /\ child' = "none"
  /\ orphans' = FALSE
  /\ report' = NoReport
  /\ isShuttingDown' = FALSE
  /\ exitCode' = Running
  /\ halt' = "none"
  /\ archiveCalls' = 0
  /\ resetCalls' = 0
  /\ git' = [git EXCEPT !.ran = FALSE, !.setup = "none", !.base = "none",
                         !.commands = <<>>]
  /\ UNCHANGED <<envFile, diagVars, eventVars, watchVars, rulesExists, pr, tasksFile, timerVars, archiveVars>>

\* The sessions that are archived: alpha, a second session alpha created
\* in the same minute that left no human-feedback.md, and alpha_1 of the
\* same minute.
Sessions ==
  {[meta |-> [name |-> <<"alpha">>, created |-> "09:00"],
    lines |-> <<[mark |-> "x", id |-> 1, title |-> <<"r", "e", "a", "l">>,
                 details |-> <<>>]>>,
    files |-> [f \in WorkFiles |-> <<"a">>]],
   [meta |-> [name |-> <<"alpha">>, created |-> "09:00"],
    lines |-> <<>>,
    files |-> [f \in WorkFiles \ {"human-feedback.md"} |-> <<"b">>]],
   [meta |-> [name |-> <<"alpha", "_1">>, created |-> "09:00"],
    lines |-> <<[mark |-> "x", id |-> 1, title |-> <<"r", "e", "a", "l">>,
                 details |-> <<>>]>>,
    files |-> [f \in WorkFiles |-> <<"a">>]]}

\* A new session is written into the working directory (oreo-generate or
\* the user writes cookie-crumbs.md, the loop and the agent the other
\* files).
NewSession ==
  /\ pc \in {"startup", "exited"}
  /\ \E s \in Sessions :
       /\ tasksFile' = s.lines
       /\ sessionMeta' = s.meta
       /\ workFiles' = s.files
  /\ tasksExists' = TRUE
  /\ UNCHANGED <<envFile, diagVars, eventVars, watchVars, startVars, loopVars, child, orphans, archives, tests,
                 reusable, outcome>>

InitArchive ==
  /\ envFile = EnvVar("anthropic", "AKIA", "secret", "eu-west-1", "sk-ant", "fk", Undef)
  /\ tasksFile \in {s.lines : s \in Sessions}
  /\ InitMain
  /\ InitSession
  /\ InitLog
  /\ tasksExists = TRUE
  /\ rulesExists = TRUE
  /\ git = plainGit
  /\ pr = plainPr

NextArchive ==
  \/ Startup
  \/ AllTasksComplete
  \/ StartRun
  \/ NewSession
  \/ \E reset \in BOOLEAN : ArchiveCli(reset)

SpecArchive == InitArchive /\ [][NextArchive]_vars

\* The scripts that are written: verify-auth.js with each content, the
\* task script with one.
TestFiles ==
  {<<verifyAuthJs, c>> : c \in TestContents}
    \cup {<<verifyTask36Js, cleanScript>>}

\* The agent (or the user) writes a verification script into tests/.
AgentWritesTest ==
  /\ \E w \in TestFiles :
       tests' = [u \in DOMAIN tests \cup {w[1]} |->
                   IF u = w[1] THEN w[2] ELSE tests[u]]
  /\ UNCHANGED <<envFile, diagVars, eventVars, watchVars, startVars, loopVars, child, orphans, tasksFile,
                 tasksExists, sessionMeta, workFiles, archives, reusable, outcome>>

\* The archive command over the scripts that sessions leave in tests/.
NextTests ==
  \/ AgentWritesTest
  \/ \E reset \in BOOLEAN : ArchiveCli(reset)

InitTests ==
  /\ InitArchive
  /\ tasksFile = <<>>

SpecTests == InitTests /\ [][NextTests]_vars

\* The archive command with --reset under every state of the OREO_AUTO_PR
\* switch, the gh CLI and git push.
InitReset ==
  /\ envFile = EnvVar("anthropic", "AKIA", "secret", "eu-west-1", "sk-ant", "fk", Undef)
  /\ tasksFile \in {s.lines : s \in Sessions}
  /\ InitMain
  /\ InitSession
  /\ InitLog
  /\ tasksExists = TRUE
  /\ rulesExists = TRUE
  /\ git = plainGit
  /\ pr \in PrEnvs

NextReset == \E reset \in BOOLEAN : ArchiveCli(reset)

SpecReset == InitReset /\ [][NextReset]_vars
\* The archive command in a working directory from which files are gone:
\* the user or the agent has deleted the task store, the feedback file or
\* everything.
Removals ==
  {{"cookie-crumbs.md"}, {"human-feedback.md"}, {"cookie-crumbs.md"} \cup WorkFiles}

FilesRemoved ==
  /\ \E gone \in Removals :
       /\ \E f \in gone : existsLive(f)
       /\ tasksExists' = (tasksExists /\ "cookie-crumbs.md" \notin gone)
       /\ tasksFile' = IF "cookie-crumbs.md" \in gone THEN <<>> ELSE tasksFile
       /\ workFiles' = [g \in DOMAIN workFiles \ gone |-> workFiles[g]]
  /\ UNCHANGED <<envFile, diagVars, eventVars, watchVars, startVars, loopVars, child,
                 orphans, sessionMeta, archives, tests, reusable, outcome>>

NextRemoval ==
  \/ FilesRemoved
  \/ \E reset \in BOOLEAN : ArchiveCli(reset)

SpecRemoval == InitArchive /\ [][NextRemoval]_vars

\* ------------------------------------------------------ test classification
\* The archive command over a tests/ directory that holds one script: the
\* names of the README (one and several words after the prefix), names with
\* a task number, a date or a session word, a generic name that contains a
\* session word, names outside the convention; empty and clean contents and
\* one content for each session marker.
ScriptNames ==
  {<<"v", "e", "r", "i", "f", "y", "-", "a", "u", "t", "h", ".", "j", "s">>,
   <<"V", "e", "r", "i", "f", "y", "-", "A", "u", "t", "h", ".", "j", "s">>,
   <<"v", "e", "r", "i", "f", "y", "-", "t", "a", "s", "k", "-", "3", "6",
     "-", "f", "i", "x", ".", "j", "s">>,
   <<"v", "e", "r", "i", "f", "y", "-", "t", "a", "s", "k", "3", "6", ".",
     "j", "s">>,
   <<"v", "e", "r", "i", "f", "y", "-", "s", "e", "s", "s", "i", "o", "n",
     ".", "j", "s">>,
   <<"v", "e", "r", "i", "f", "y", "-", "2", "0", "2", "4", "-", "0", "1",
     "-", "1", "5", ".", "j", "s">>,
   <<"c", "h", "e", "c", "k", "-", "h", "e", "a", "l", "t", "h", ".", "j",
     "s">>,
   <<"c", "h", "e", "c", "k", "-", "a", "p", "i", "-", "h", "e", "a", "l",
     "t", "h", ".", "j", "s">>,
   <<"v", "a", "l", "i", "d", "a", "t", "e", "-", "s", "c", "h", "e", "m",
     "a", ".", "j", "s">>,
   <<"v", "a", "l", "i", "d", "a", "t", "e", "-", "d", "b", "-", "s", "c",
     "h", "e", "m", "a", ".", "j", "s">>,
   <<"t", "e", "s", "t", "-", "l", "o", "g", "i", "n", "-", "f", "l", "o",
     "w", ".", "j", "s">>,
   <<"l", "o", "g", "i", "n", "-", "f", "l", "o", "w", ".", "j", "s">>,
   <<"h", "e", "l", "p", "e", "r", ".", "j", "s">>}
ScriptContents ==
  {<<>>,
   <<"o", "k", "(", ")">>,
   <<"u", "s", "e", "r", "I", "d", " ", "=", " ", "1">>,
   <<"c", "o", "n", "s", "t", " ", "t", "e", "s", "t", "I", "d", "=", "7">>,
   <<"s", "e", "e", " ", "T", "a", "s", "k", " ", "3">>,
   <<"/", "/", " ", "t", "e", "m", "p">>}

InitClassify ==
  /\ envFile = EnvVar("anthropic", "AKIA", "secret", "eu-west-1", "sk-ant", "fk", Undef)
  /\ tasksFile = <<>>
  /\ InitMain
  /\ InitLog
  /\ sessionMeta = [name |-> <<"alpha">>, created |-> "09:00"]
  /\ workFiles = [f \in WorkFiles |-> <<"a">>]
  /\ archives = <<>>
  /\ \E n \in ScriptNames, c \in ScriptContents : tests = [t \in {n} |-> c]
  /\ reusable = <<>>
  /\ tasksExists = TRUE
  /\ rulesExists = TRUE
  /\ git = plainGit
  /\ pr = plainPr

NextClassify == \E reset \in BOOLEAN : ArchiveCli(reset)

SpecClassify == InitClassify /\ [][NextClassify]_vars

\* ---------------------------------------------------------- model selection
\* Stores of one task line whose title carries no tag, each of the tags in
\* upper or mixed case, a keyword, a keyword inside a word, or a tag next to
\* a keyword, with details that add nothing, a keyword or a tag.
ModelTitles ==
  {<<"F", "i", "x", " ", "t", "y", "p", "o">>,
   <<"F", "i", "x", " ", "t", "y", "p", "o", " ", "[", "S", "I", "M", "P",
     "L", "E", "]">>,
   <<"R", "e", "f", "a", "c", "t", "o", "r", " ", "a", "p", "i", " ", "[",
     "S", "I", "M", "P", "L", "E", "]">>,
   <<"F", "i", "x", " ", "t", "y", "p", "o", " ", "[", "C", "O", "M", "P",
     "L", "E", "X", "]">>,
   <<"F", "i", "x", " ", "t", "y", "p", "o", " ", "[", "C", "R", "I", "T",
     "I", "C", "A", "L", "]">>,
   <<"R", "e", "f", "a", "c", "t", "o", "r", " ", "p", "a", "r", "s", "e",
     "r">>,
   <<"R", "a", "p", "i", "d", " ", "f", "i", "x">>,
   <<"O", "P", "U", "S", " ", "[", "S", "i", "m", "p", "l", "e", "]", " ",
     "[", "C", "o", "m", "p", "l", "e", "x", "]">>}
ModelDetails ==
  {<<>>,
   <<"u", "p", "d", "a", "t", "e", " ", "t", "h", "e", " ", "S", "c", "h",
     "e", "m", "a">>,
   <<"[", "s", "i", "m", "p", "l", "e", "]">>,
   <<"s", "e", "e", " ", "n", "o", "t", "e", "s">>}
ModelLines == [mark : Marks, id : {1}, title : ModelTitles, details : ModelDetails]

InitModels ==
  /\ envFile = EnvVar("anthropic", "AKIA", "secret", "eu-west-1", "sk-ant", "fk", Undef)
  /\ tasksFile \in {<<l>> : l \in ModelLines}
  /\ InitMain
  /\ InitSession
  /\ InitLog
  /\ tasksExists = TRUE
  /\ rulesExists = TRUE
  /\ git = plainGit
  /\ pr = plainPr

\* The agent exits with code 0 or is timed out and never edits the store.
NextModels ==
  \/ Startup
  \/ AllTasksComplete
  \/ RetryLimit
  \/ SpawnAgent
  \/ AgentExit(0)
  \/ TaskTimeout
  \/ LateExit
  \/ HungKillFires
  \/ CooldownFires

SpecModels == InitModels /\ [][NextModels]_vars

\* ------------------------------------------------------------ oreo-diagnose
\* The logs the loop leaves behind after at most MaxLogIterations
\* iterations.
RECURSIVE logsOf(_)
logsOf(n) ==
  IF n = 0 THEN {<<>>}
  ELSE LET shorter == logsOf(n - 1)
       IN  shorter \cup {l \o iterationLog(i, t, o) :
                           l \in shorter, i \in TaskIds, t \in LogTitles,
                           o \in LogOutcomes}

\* node oreo-diagnose.js
Diagnose ==
  /\ analysis = NoAnalysis
  /\ analysis' = analyzeLog(logFile)
  /\ UNCHANGED <<envFile, logFile, eventVars, watchVars, startVars, archiveVars,
                 tasksFile, child, orphans, loopVars>>

InitDiagnose ==
  /\ envFile = EnvVar("anthropic", "AKIA", "secret", "eu-west-1", "sk-ant", "fk", Undef)
  /\ tasksFile = <<>>
  /\ InitMain
  /\ InitSession
  /\ tasksExists = TRUE
  /\ rulesExists = TRUE
  /\ git = plainGit
  /\ pr = plainPr
  /\ logFile \in logsOf(MaxLogIterations)
  /\ analysis = NoAnalysis

SpecDiagnose == InitDiagnose /\ [][Diagnose]_vars

\* ---------------------------------------------------------------- claims
\* The properties read cookie-crumbs.md line by line, not through parseTasks.
allChecked(content) == \A i \in 1..Len(content) : content[i].mark = "x"

\* The first unchecked line of a store that has one.
firstUnchecked(content) ==
  CHOOSE i \in 1..Len(content) :
    content[i].mark = " " /\ \A j \in 1..(i - 1) : content[j].mark = "x"

\* C1: at most one agent child process is alive at any time; no agent is
\* spawned while an agent of an earlier iteration still runs.
C1_AtMostOneAgentAlive == ~(child = "alive" /\ orphans)

\* C2: whenever an invocation returns (exit code 0, another exit code, or
\* the hard timeout) and the store shows the invoked task checked, the
\* invocation counts as a success: the counter of the task is reset to zero
\* and the iteration reports COMPLETED with its commit attempted.
C2_CheckedTaskIsSuccess ==
  [][(pc = "await" /\ pc' = "cooldown"
        /\ isCompleteById(parseTasks(tasksFile'), task.id))
      => (taskAttempts'[task.id] = 0
            /\ report'.status = "COMPLETED" /\ report'.commit # "none")]_vars

\* C3: when every invocation exits with code 0 and leaves the checkbox of
\* the first incomplete task unchecked, the run ends with the abort (exit
\* code 1) in the iteration after the maxRetriesPerTask-th spawn, and
\* archiveSession was never called.
C3_FiveSpawnsThenAbort ==
  (pc = "exited" /\ halt \notin {"precondition", "done"})
    => (halt = "abort" /\ exitCode = 1 /\ loops = maxRetriesPerTask + 1
          /\ archiveCalls = 0)

\* C4, as stated: a run that ended took the retry-exhaustion abort if and
\* only if the counter of some task is at maxRetriesPerTask.
C4_AbortIffCounterAtMax ==
  (pc = "exited" /\ halt # "precondition")
    => ((halt = "abort")
          <=> (\E id \in TaskIds : taskAttempts[id] >= maxRetriesPerTask))

\* C4, amended: the run takes the retry-exhaustion abort exactly in the
\* iterations whose selected task (the first unchecked line) has a counter
\* that has reached maxRetriesPerTask.
C4_AbortExactlyAtExhaustedSelect ==
  [][(halt' = "abort" /\ halt # "abort")
      <=> (pc = "loop" /\ pc' # "loop" /\ loops < maxGlobalLoops
             /\ ~allChecked(tasksFile)
             /\ taskAttempts[tasksFile[firstUnchecked(tasksFile)].id]
                  >= maxRetriesPerTask)]_vars

C4_Witness ==
  /\ halt = "abort"
  /\ exitCode = 1
  /\ taskAttempts[task.id] = maxRetriesPerTask

C6_SelectsFirstUncheckedLine ==
  [][(pc = "loop" /\ pc' = "await")
      => /\ task'.line \in 1..Len(tasksFile)
         /\ tasksFile[task'.line].mark = " "
         /\ \A j \in 1..(task'.line - 1) : tasksFile[j].mark = "x"
         /\ task'.id = tasksFile[task'.line].id]_vars

\* The agent runs the task with id 2 of the first line while the task with
\* id 1 is unchecked on the second line.
C6_Witness ==
  /\ pc = "await"
  /\ task.line = 1
  /\ task.id = 2
  /\ Len(tasksFile) = 2
  /\ tasksFile[2].mark = " "
  /\ tasksFile[2].id = 1

\* C7: an iteration that finds no unchecked line (an empty store included)
\* spawns nothing, calls archiveSession, which no earlier step has called,
\* and exits with code 0; archiveSession is called in no other step.
C7_DoneExactlyWhenNothingUnchecked ==
  [][/\ (pc = "loop" /\ pc' # "loop" /\ loops < maxGlobalLoops
           /\ allChecked(tasksFile))
         => (pc' = "exited" /\ exitCode' = 0
               /\ archiveCalls = 0 /\ archiveCalls' = 1
               /\ child' = child /\ orphans' = orphans)
     /\ archiveCalls' # archiveCalls
         => (pc = "loop" /\ loops < maxGlobalLoops /\ allChecked(tasksFile)
               /\ pc' = "exited" /\ exitCode' = 0)]_vars

C7_Witness ==
  /\ pc = "exited"
  /\ halt = "done"
  /\ exitCode = 0
  /\ archiveCalls = 1
  /\ loops > 1
  /\ child = "exited"

\* C8: after an interrupt signal no agent is spawned.
C8_NoSpawnAfterSignal ==
  [][isShuttingDown => ~(pc = "loop" /\ pc' = "await")]_vars

\* C9: a run that received an interrupt signal never ends with exit code 0.
C9_SignalMeansNonZeroExit ==
  (pc = "exited" /\ isShuttingDown) => exitCode # 0

\* C10: the env of every invocation holds the variables of the active
\* provider at the values of .env (bedrock: key id, secret, region, the
\* Bedrock switch; anthropic: the API key; subscription: none) and no
\* credential of another provider.
C10_ChildEnvHasConfiguredCredentials ==
  pc = "await" =>
    LET p == providerOf(envFile)
    IN  /\ p = "bedrock" =>
             env = EnvVar(envFile.AI_PROVIDER, envFile.AWS_ACCESS_KEY_ID,
                          envFile.AWS_SECRET_ACCESS_KEY,
                          orElse(envFile.AWS_REGION, "us-east-1"),
                          Undef, Undef, "1")
        /\ p = "anthropic" =>
             env = EnvVar(envFile.AI_PROVIDER, Undef, Undef, Undef,
                          envFile.ANTHROPIC_API_KEY, Undef, Undef)
        /\ p = "subscription" =>
             env = EnvVar(envFile.AI_PROVIDER, Undef, Undef, Undef, Undef,
                          Undef, Undef)

\* C11: when a git command of the branch setup fails or times out, no agent
\* is spawned and the run ends with an exit code that is not 0.
C11_FailedSetupStopsRun ==
  git.setup = "failed"
    => (child = "none" /\ pc # "await" /\ (pc = "exited" => exitCode # 0))

\* A line of the store that is not the example line of the reset template.
isRealTask(l) == l.title # <<"T", "i", "t", "l", "e">>

\* C12: on a session branch the run resumes the session exactly when the
\* store has a real task that is unchecked; the store of the reset template
\* and a store whose real tasks are all checked are not resumed.
C12_ResumeIffRealTaskUnchecked ==
  [][(pc = "startup" /\ pc' = "loop" /\ git.branch = "session"
        /\ git.failure = "none")
      => ((git'.setup = "resumed")
            <=> (\E i \in 1..Len(tasksFile) :
                   isRealTask(tasksFile[i]) /\ tasksFile[i].mark = " "))]_vars

\* The credentials the provider of .env needs are not all there, or the
\* provider is none of the three.
credentialsMissing(e) ==
  LET p == providerOf(e)
  IN  \/ p = "bedrock"
           /\ (e.AWS_ACCESS_KEY_ID = Undef \/ e.AWS_SECRET_ACCESS_KEY = Undef)
      \/ p = "anthropic" /\ e.ANTHROPIC_API_KEY = Undef
      \/ p \notin {"bedrock", "anthropic", "subscription"}

\* C13: with the task store, the system rules or the credentials of the
\* selected provider missing (or no valid provider), the run ends with exit
\* code 1 before any git command and before any spawn.
C13_MissingPreconditionExitsFirst ==
  (pc # "startup"
     /\ (~tasksExists \/ ~rulesExists \/ credentialsMissing(envFile)))
    => (pc = "exited" /\ exitCode = 1 /\ ~git.ran /\ child = "none"
          /\ loops = 0)

\* C14: a run that reaches the iteration cap ends with exit code 1.
C14_CapExitsWithOne ==
  halt = "cap" => exitCode = 1

\* C17: the store a reset wrote parses to no task, so a run that starts
\* from it takes the Done path at its first selection and spawns nothing.
C17_RunAfterResetSpawnsNothing ==
  (tasksFile = cookieCrumbsTemplate /\ pc \notin {"startup", "exited"})
    => (parseTasks(tasksFile) = <<>> /\ pc = "loop" /\ loops = 0
          /\ child = "none")

FixedWorkingFiles ==
  {"cookie-crumbs.md", "progress.txt", "costs.json", "oreo-execution.log",
   "human-feedback.md"}

\* C16: an archive that completes holds, for each fixed working file that
\* existed, a copy equal to the live file as it was just before; when the
\* reset follows, the live store is the fresh template and the other live
\* files are their templates, the memory log with the carry-over summary,
\* whatever the archived files hold.
C16_ArchiveCopiesThenResetWritesTemplates ==
  [][(archives' # archives /\ outcome'.archive = "archived")
      => \E a \in DOMAIN archives' \ DOMAIN archives :
           /\ \A f \in FixedWorkingFiles :
                IF existsLive(f)
                  THEN /\ f \in DOMAIN archives'[a].files
                       /\ archives'[a].files[f] = liveContent(f)
                  ELSE f \notin DOMAIN archives'[a].files
           /\ outcome'.reset # "none" =>
                /\ tasksExists'
                /\ tasksFile' = cookieCrumbsTemplate
                /\ sessionMeta' = templateMeta
                /\ DOMAIN workFiles' = WorkFiles
                /\ workFiles'["human-feedback.md"] = <<"feedbackTemplate">>
                /\ workFiles'["costs.json"] = <<"emptyCosts">>
                /\ workFiles'["oreo-execution.log"] = <<>>
                /\ Head(workFiles'["progress.txt"]) = "progressTemplate"]_vars

\* The session alpha was archived with its five files and the working
\* directory was reset after it.
C16_Witness ==
  /\ outcome.archive = "archived"
  /\ outcome.reset # "none"
  /\ <<"09:00", "alpha">> \in DOMAIN archives
  /\ DOMAIN archives[<<"09:00", "alpha">>].files = FixedWorkingFiles
  /\ archives[<<"09:00", "alpha">>].files["progress.txt"] = <<"a">>
  /\ tasksFile = cookieCrumbsTemplate
  /\ workFiles["costs.json"] = <<"emptyCosts">>

\* C18: no step changes or removes a file of tests/reusable; a file is
\* added to it only by an archive, as the copy of a script of tests/ that is
\* classified reusable and whose name was not there; and the tests an
\* archive holds are scripts of the root of tests/ that are not classified
\* reusable, never the files of tests/reusable.
C18_ReusableOnlyGrows ==
  [][/\ \A f \in DOMAIN reusable :
          f \in DOMAIN reusable' /\ reusable'[f] = reusable[f]
     /\ \A f \in DOMAIN reusable' \ DOMAIN reusable :
          /\ archives' # archives
          /\ f \in DOMAIN tests
          /\ isTestReusable(f, tests[f])
          /\ reusable'[f] = tests[f]
     /\ \A a \in DOMAIN archives' \ DOMAIN archives :
          \A t \in DOMAIN archives'[a].tests :
            /\ t \in DOMAIN tests
            /\ ~isTestReusable(t, tests[t])
            /\ archives'[a].tests[t] = tests[t]]_vars

\* The first archive moved verify-auth.js to tests/reusable; before the
\* second one a verify-auth.js with hard-coded data was in tests/, and it
\* went to the archive while the file of tests/reusable stayed.
C18_Witness ==
  /\ DOMAIN archives = {<<"09:00", "alpha">>, <<"09:00", "alpha", "_1">>}
  /\ DOMAIN archives[<<"09:00", "alpha">>].tests = {verifyTask36Js}
  /\ DOMAIN archives[<<"09:00", "alpha", "_1">>].tests = {verifyAuthJs}
  /\ DOMAIN reusable = {verifyAuthJs}
  /\ reusable[verifyAuthJs] = cleanScript
  /\ tests = <<>>

\* C19: when archiveSession or resetSessionFiles throws on the Done path,
\* the run still ends there with exit code 0.
C19_ArchiveFailureStillExitsZero ==
  [][(archiveCalls' # archiveCalls
        /\ (outcome'.archive = "threw" \/ outcome'.reset = "threw"))
      => (pc' = "exited" /\ exitCode' = 0 /\ halt' = "done")]_vars

\* A run that ended on the Done path with exit code 0 after archiveSession
\* threw with the new directory already made.
C19_Witness ==
  /\ pc = "exited"
  /\ halt = "done"
  /\ exitCode = 0
  /\ archiveCalls = 1
  /\ outcome.archive = "threw"
  /\ DOMAIN archives # {}

\* C20: resetSessionFiles returns normally whatever the push and the
\* pull-request steps meet.
C20_ResetReturnsNormally ==
  outcome.reset # "threw"

\* C21: when the commit after a task observed complete fails or times out,
\* the iteration still ends as a completed one: the task's counter is at
\* zero, the process keeps running, and the loop goes through the cooldown
\* to the next selection without counting anything.
C21_FailedCommitKeepsTaskComplete ==
  [][/\ (report # report' /\ report'.commit = "failed")
          => /\ report'.status = "COMPLETED"
             /\ taskAttempts'[task.id] = 0
             /\ isCompleteById(parseTasks(tasksFile'), task.id)
             /\ pc' = "cooldown"
             /\ cooldownT' = cooldownTicks
             /\ exitCode' = Running
     /\ (report.commit = "failed")
          => (/\ pc' \in {"cooldown", "loop"}
              /\ exitCode' = Running
              /\ taskAttempts' = taskAttempts)]_vars

C21_Witness ==
  /\ pc = "cooldown"
  /\ report = [status |-> "COMPLETED", commit |-> "failed", costEntries |-> 1]
  /\ exitCode = Running
  /\ \E i \in TaskIds : /\ taskAttempts[i] = 0
                        /\ isCompleteById(parseTasks(tasksFile), i)
  /\ FirstIncomplete(parseTasks(tasksFile)) # 0

\* C22: the model of an invocation is a function of the lowercased title
\* and details of its task alone: the cheap tier when the text contains
\* [simple]; otherwise the standard tier when it contains [complex],
\* [critical] or a keyword of the fixed set; otherwise the cheap tier; never
\* the premium tier.
C22_ModelFollowsTagsThenKeywords ==
  pc = "await" =>
    LET text == toLowerCase(task.title \o <<" ">> \o task.details)
        tagged(tag) == includes(text, tag)
    IN  /\ tagged(simpleTag) => model = "HAIKU"
        /\ (~tagged(simpleTag) /\ (tagged(complexTag) \/ tagged(criticalTag)))
             => model = "SONNET"
        /\ (~tagged(simpleTag) /\ \E kw \in complexKeywords : includes(text, kw))
             => model = "SONNET"
        /\ (/\ ~tagged(simpleTag) /\ ~tagged(complexTag) /\ ~tagged(criticalTag)
            /\ \A kw \in complexKeywords : ~includes(text, kw))
             => model = "HAIKU"
        /\ model \in MODELS \ {"OPUS"}
        /\ \A l \in ModelLines :
             toLowerCase(l.title \o <<" ">> \o l.details) = text
               => selectModel(l) = model

\* A task with a keyword and the [SIMPLE] tag runs on the cheap tier.
C22_Witness ==
  /\ pc = "await"
  /\ model = "HAIKU"
  /\ includes(toLowerCase(task.title), simpleTag)
  /\ \E kw \in complexKeywords : includes(toLowerCase(task.title), kw)

\* The classifications the report gives a task id.
classesOf(id) ==
  {c \in {"Hung", "Completed", "Failed"} :
     LET ids == IF c = "Hung" THEN analysis.hung
                ELSE IF c = "Completed" THEN analysis.completed
                ELSE analysis.failed
     IN  \E k \in 1..Len(ids) : ids[k] = id}

\* C25: the post-mortem report gives every task id of the log exactly one
\* of the classifications Completed, Hung and Never-Started/Failed.
C25_OneClassificationPerTask ==
  analysis.printed =>
    \A k \in 1..Len(logFile) :
      logFile[k].kind = "start" => Cardinality(classesOf(logFile[k].id)) = 1

followsConvention(f) ==
  LET t == toLowerCase(f)
      startsWith(p) == Len(t) >= Len(p) /\ SubSeq(t, 1, Len(p)) = p
      flow == <<"-", "f", "l", "o", "w", ".", "j", "s">>
  IN  \/ startsWith(<<"v", "e", "r", "i", "f", "y", "-">>)
      \/ startsWith(<<"c", "h", "e", "c", "k", "-">>)
      \/ startsWith(<<"v", "a", "l", "i", "d", "a", "t", "e", "-">>)
      \/ Len(t) >= Len(flow) /\ SubSeq(t, Len(t) - Len(flow) + 1, Len(t)) = flow

\* C24: no script that follows the naming convention, has no
\* session-specific token in its name and no session marker in its content
\* is archived as session-specific; check-api-health.js and
\* validate-db-schema.js are such scripts.
C24_ConventionNamesAreReusable ==
  \A a \in DOMAIN archives : \A f \in DOMAIN archives[a].tests :
    ~(/\ followsConvention(f)
      /\ ~sessionSpecific(f)
      /\ ~sessionSpecificStrings(archives[a].tests[f]))

\* C26: the attempt counters change only when an invocation ends: the
\* counter of the invoked task goes up by one if the task is unchecked in
\* the store at that moment and to zero if it is checked, and no other
\* task's counter changes.
C26_CounterFollowsCheckbox ==
  [][taskAttempts' # taskAttempts
      => /\ task # NoTask
         /\ \A i \in TaskIds \ {task.id} : taskAttempts'[i] = taskAttempts[i]
         /\ IF isCompleteById(parseTasks(tasksFile), task.id)
              THEN taskAttempts'[task.id] = 0
              ELSE taskAttempts'[task.id] = taskAttempts[task.id] + 1]_vars

\* C27: when the task timeout fires while the child runs, the child gets
\* SIGTERM and the SIGKILL timer of 5 s is armed, the invocation is
\* reported as failed and the counter of the task goes up by one.
C27_TimeoutArmsForceKill ==
  [][(pc = "await" /\ pc' = "cooldown" /\ child = "alive" /\ child' = "alive")
      => /\ hungKillT' = killGraceTicks
         /\ report'.status = "FAILED"
         /\ taskAttempts'[task.id] = taskAttempts[task.id] + 1]_vars

\* C30: gracefulShutdown signals a process only while the child it refers
\* to has been spawned and has not exited.
C30_ShutdownSignalsOnlyChildInFlight ==
  [][(~isShuttingDown /\ isShuttingDown' /\ shutdownKillT' # NoTimer)
      => child \in {"alive", "killed"}]_vars

\* C29: every invocation whose agent exits, with whatever exit code,
\* appends exactly one entry to the cost ledger.
C29_EveryExitIsCosted ==
  [][(pc = "await" /\ child = "alive" /\ child' = "exited")
      => report'.costEntries = 1]_vars

\* C28: git checkout -b runs only in a setup that does not resume, and only
\* with main checked out; a setup that resumes runs no command that
\* changes the repository and leaves the session branch checked out, and
\* the first invocation of that run is for the first unchecked task line.
C28_BranchOnlyFromMainAndNeverOnResume ==
  [][/\ (\E k \in 1..Len(git'.commands) : git'.commands[k] = "checkout -b")
          => /\ git'.setup = "created"
             /\ git'.base = "main"
             /\ git' # git =>
                  \/ git.branch = "main"
                  \/ \E j \in 1..Len(git'.commands) :
                       git'.commands[j] = "checkout main"
     /\ (git'.setup = "created")
          => (git'.base = "main" /\ git'.branch = "session")
     /\ (git'.setup = "resumed")
          => (git'.commands = <<>> /\ git'.base = "none"
                /\ git'.branch = "session" /\ git'.dirty = git.dirty)
     /\ (git.setup = "resumed" /\ loops = 0 /\ pc = "loop" /\ pc' = "await")
          => (/\ ~allChecked(tasksFile)
              /\ task'.line = firstUnchecked(tasksFile)
              /\ task'.id = tasksFile[firstUnchecked(tasksFile)].id)]_vars

\* A resumed session whose first task line is checked: the first invocation
\* is for the second line.
C28_Witness ==
  /\ git.setup = "resumed"
  /\ git.commands = <<>>
  /\ pc = "await"
  /\ loops = 1
  /\ task.line = 2
  /\ tasksFile[1].mark = "x"

\* The event windows of the log: from one "[INFO] Task N:" line to the line
\* before the next one.
startsOf(log) == SelectSeq([k \in 1..Len(log) |-> k], LAMBDA k : log[k].kind = "start")
windowOf(log, n) ==
  LET st == startsOf(log)
  IN  SubSeq(log, st[n], IF n < Len(st) THEN st[n + 1] - 1 ELSE Len(log))
hasKind(w, kinds) == \E j \in 1..Len(w) : w[j].kind \in kinds
hungWindows(log) ==
  SelectSeq([n \in 1..Len(startsOf(log)) |-> windowOf(log, n)],
            LAMBDA w : hasKind(w, {"spawning"}) /\ ~hasKind(w, {"completed"}))

\* C31: for a hung task the report names the cause found in the task's
\* event window: the task-execution timeout if the window holds a task
\* timeout line, the git operation timeout if it holds a git operation
\* timeout line and no task timeout line, unknown otherwise.
C31_CauseFollowsWindow ==
  analysis.printed =>
    LET hw == hungWindows(logFile)
    IN  /\ Len(analysis.causes) = Len(hw)
        /\ \A h \in 1..Len(hw) :
             analysis.causes[h] =
               IF hasKind(hw[h], {"timeout", "failed-timeout"})
                 THEN "Task execution timeout (30 minutes)"
               ELSE IF hasKind(hw[h], {"git-timeout", "output"})
                 THEN "Git operation timeout (1 minute)"
               ELSE "Unknown - no timeout logged"

\* C32: a run in which every invocation completes its task at the first
\* attempt is never stopped by the iteration cap, however many tasks the
\* store holds: main never leaves the while loop through its condition.
C32_CapNeverStopsHealthyRun == pc # "drain" /\ halt # "cap"

\* C33: the loop reports that all tasks are complete only when every task
\* it selected in the run was seen checked afterwards: at the step that
\* takes the Done path, a task with a counted attempt (selected, and not
\* seen complete since) has a checked line in the store.
C33_DoneOnlyWithSelectedTasksChecked ==
  [][(halt' = "done" /\ halt # "done")
      => \A id \in TaskIds :
           taskAttempts[id] > 0
             => \E j \in 1..Len(tasksFile) :
                  tasksFile[j].id = id /\ tasksFile[j].mark = "x"]_vars

\* C34: the post-execution check judges the record that was selected: an
\* invocation is reported COMPLETED (and the counter reset) only if the
\* line the task was read from is checked in the store, whatever other
\* lines carry the same id.  The agent of these runs edits nothing, so the
\* selected record is still on its line.
C34_CompletionJudgesSelectedRecord ==
  [][(pc = "await" /\ report'.status = "COMPLETED")
      => tasksFile'[task.line].mark = "x"]_vars

\* C35: the heartbeat timer of an invocation is stopped when the invocation
\* returns to the loop, by child exit, spawn error or hard timeout: every
\* heartbeat line is about the invocation main is awaiting.
C35_HeartbeatStopsWithInvocation == beat # "stale"

\* C36: the timeout timer of an invocation that ended through its child
\* has no effect when it fires later: the step changes nothing but the
\* timer itself; no child is signalled, no SIGKILL timer is armed, main
\* stays where it is and no attempt is counted.
C36_StaleTimeoutHasNoEffect ==
  [][(staleTimeouts /\ ~staleTimeouts' /\ pc' # "exited")
      => UNCHANGED <<child, orphans, hungKillT, pc, taskAttempts, report, task,
                     attempts, cooldownT, tasksFile, heartbeat>>]_vars

\* The timer of an earlier invocation has fired while main awaits a later
\* one, whose child still runs.
C36_Witness == staleFired /\ pc = "await" /\ child = "alive" /\ loops >= 2

\* A live working file is written (not removed) by the step.
liveWritten ==
  \/ tasksExists' /\ (~tasksExists \/ tasksFile' # tasksFile \/ sessionMeta' # sessionMeta)
  \/ \E f \in DOMAIN workFiles' : f \notin DOMAIN workFiles \/ workFiles'[f] # workFiles[f]

\* C37: the live working files are overwritten only by a step that has
\* archived first: the step has made a new archive directory holding a copy
\* of every working file that existed.  An archive step that fails or finds
\* nothing to archive is followed by no reset and leaves the task store,
\* the memory log, the cost ledger and the execution log as they were.
C37_ResetOnlyAfterArchive ==
  [][/\ liveWritten
          => /\ outcome'.archive = "archived"
             /\ \E a \in DOMAIN archives' \ DOMAIN archives :
                  \A f \in FixedWorkingFiles :
                    existsLive(f) => /\ f \in DOMAIN archives'[a].files
                                     /\ archives'[a].files[f] = liveContent(f)
     /\ ((archives' # archives \/ outcome' # outcome)
           /\ outcome'.archive \in {"threw", "nothing"})
          => /\ outcome'.reset = "none"
             /\ UNCHANGED <<tasksFile, tasksExists, sessionMeta, workFiles>>]_vars

\* The archive command ran in a directory without working files: it made
\* a directory, found nothing to archive, and the directory is as it was.
C37_Witness ==
  /\ outcome.archive = "nothing"
  /\ ~tasksExists
  /\ workFiles = <<>>
  /\ \E a \in DOMAIN archives : DOMAIN archives[a].files = {}

\* C38: no test script is lost by archiving: every script of the root of
\* tests/ that a step removes is, after the step, in tests/reusable or in
\* the tests of the archive the step made, under its name and with the
\* content it had, also when tests/reusable already held a file of that name.
C38_NoTestLostByArchiving ==
  [][\A f \in DOMAIN tests :
       f \notin DOMAIN tests'
         => \/ f \in DOMAIN reusable' /\ reusable'[f] = tests[f]
            \/ \E a \in DOMAIN archives' \ DOMAIN archives :
                 /\ f \in DOMAIN archives'[a].tests
                 /\ archives'[a].tests[f] = tests[f]]_vars

====
